---- MODULE Spec2Model ----
(***************************************************************************)
(* A model of the PlexusIngest core: the header cache (file_cache.py), the *)
(* NetCDF-3 header decoder and its fingerprint (nc3header.py), the volume  *)
(* slicer with its histogram (make_slices.py), the history parser and the  *)
(* choice of the main process (history.py), and the retries of an upload   *)
(* (simple_upload.py).                                                     *)
(*                                                                         *)
(* Files are byte sequences.  The read-ahead granule (4096 in the source)  *)
(* and the cache limit (512 * 1024) are scaled down so that a header of a  *)
(* few dozen bytes crosses read-ahead boundaries and a file of about a     *)
(* hundred bytes exceeds the limit; the arithmetic on them is the source's.*)
(***************************************************************************)
EXTENDS Integers, Sequences, FiniteSets, TLC

\* ------------------------------------------------------------------ bounds
\* file_cache.py:129 reads at least 4096 bytes at a time; scaled.
MinRead == 12
\* st_blksize of the file system (file_cache.py:132-134); scaled like MinRead.
BlkSize == 12
\* file_cache.py:44 sets cache_limit = 512 * 1024; scaled to 8 * MinRead.
CacheLimit == 96
\* reads and seeks of the generic client never move the offset past this
MaxOffset == 112

\* --------------------------------------------------------------- utilities
Min(a, b) == IF a < b THEN a ELSE b
Max(a, b) == IF a > b THEN a ELSE b

\* Python's s[:n] and s[a:b] for 0 <= n, 0 <= a
Prefix(s, n) == SubSeq(s, 1, Min(n, Len(s)))
PySlice(s, a, b) == SubSeq(s, a + 1, Min(b, Len(s)))

\* a 32-bit big-endian integer 0 <= n < 256, and a run of n filler bytes
I32(n) == <<0, 0, 0, n>>
Filler(n, b) == [i \in 1..n |-> b]

\* "%d" % n: the decimal digits of an integer, with "-" before a negative one
Digit(d) == <<"0", "1", "2", "3", "4", "5", "6", "7", "8", "9">>[d + 1]

RECURSIVE Decimal(_)
Decimal(n) ==
    IF n < 0 THEN <<"-">> \o Decimal(-n)
    ELSE IF n < 10 THEN <<Digit(n)>>
    ELSE Decimal(n \div 10) \o <<Digit(n % 10)>>

SetMax(S) == CHOOSE m \in S : \A x \in S : x <= m

\* os.path.basename
os_path_basename(path) ==
    LET slashes == {i \in DOMAIN path : path[i] = "/"}
    IN  IF slashes = {} THEN path
        ELSE SubSeq(path, SetMax(slashes) + 1, Len(path))

\* str.endswith(suffix), strings being sequences of characters
EndsWith(str, suffix) ==
    Len(str) >= Len(suffix)
        /\ SubSeq(str, Len(str) - Len(suffix) + 1, Len(str)) = suffix

\* ------------------------------------------------------------ files on disk
\* "CDF\001"
Magic == <<67, 68, 70, 1>>

\* A: one global attribute "attr" = 7 (NC_LONG), header of 52 bytes, then data
HeaderA ==
    Magic \o I32(0) \o I32(0) \o I32(0)
          \o I32(12) \o I32(1) \o I32(4) \o <<97, 116, 116, 114>>
          \o I32(4) \o I32(1) \o I32(7)
          \o I32(0) \o I32(0)
\* B: the empty header, 32 bytes, no data
HeaderB ==
    Magic \o I32(0) \o I32(0) \o I32(0) \o I32(0) \o I32(0) \o I32(0) \o I32(0)
\* C: one dimension "xy" = 5 (name padded by two bytes), header of 44 bytes
HeaderC ==
    Magic \o I32(0) \o I32(10) \o I32(1) \o I32(2) \o <<120, 121, 0, 0>>
          \o I32(5) \o I32(0) \o I32(0) \o I32(0) \o I32(0)
\* D: a file that ends inside its dimension list
HeaderD ==
    Magic \o I32(0) \o I32(10) \o I32(1)

\* The versions the file at the one path of the model can have.  Their
\* (mtime, size) pairs are pairwise distinct: a version is identified by
\* its stat, the assumption under which a cache keyed by mtime and size is
\* used at all.
\* A and B differ in size only, A and C in mtime only.
DiskA == [mtime |-> 1, data |-> HeaderA \o Filler(52, 170)]
DiskB == [mtime |-> 1, data |-> HeaderB]
DiskC == [mtime |-> 3, data |-> HeaderC \o Filler(60, 187)]
DiskD == [mtime |-> 4, data |-> HeaderD]
\* Headers put together from the parts of the classic format, to take the
\* decoder through its list headers, element types and dimension indices.
\* -1 as a 32-bit integer
MinusOne == <<255, 255, 255, 255>>
\* the format pads every field to a multiple of four bytes
Padded(bytes) == bytes \o Filler((4 - (Len(bytes) % 4)) % 4, 0)
NCString(bytes) == I32(Len(bytes)) \o Padded(bytes)
ListHead(tag, count) == I32(tag) \o I32(count)
Absent == ListHead(0, 0)
Dim(name, value) == NCString(name) \o I32(value)
Att(name, type, n, payload) == NCString(name) \o I32(type) \o I32(n) \o Padded(payload)
RECURSIVE Indices(_)
Indices(refs) ==
    IF refs = <<>> THEN <<>> ELSE I32(Head(refs)) \o Indices(Tail(refs))
Var(name, refs, attributes, type, size, start) ==
    NCString(name) \o I32(Len(refs)) \o Indices(refs) \o attributes
              \o I32(type) \o I32(size) \o I32(start)
\* magic and numrecs = 0
Start == Magic \o I32(0)
\* dimensions x = 2 and yz = 3
TwoDims == ListHead(10, 2) \o Dim(<<120>>, 2) \o Dim(<<121, 122>>, 3)

HeaderNames ==
    {"full", "typed", "var_att", "counted_empty", "bad_magic",
     "dim_absent_one", "dim_unknown_none", "dim_other_list", "dim_negative",
     "att_absent_one", "att_other_list", "var_absent_two", "var_other_list",
     "var_att_absent_one", "att_type_zero", "att_type_seven",
     "var_type_zero", "var_type_seven", "index_beyond", "index_no_dims",
     "short_list", "cut_after_name", "cut_in_name"}

HeaderBytes(v) ==
    CASE v = "full" ->
            \* two dimensions, no attributes, one float variable over yz
            Start \o TwoDims \o Absent \o ListHead(11, 1)
                  \o Var(<<118>>, <<1>>, Absent, 5, 12, 92)
      [] v = "typed" ->
            \* a text of three characters, one byte and one double
            Start \o Absent
                  \o ListHead(12, 3) \o Att(<<97>>, 2, 3, <<97, 98, 99>>)
                     \o Att(<<98>>, 1, 1, <<9>>)
                     \o Att(<<99>>, 6, 1, <<64, 0, 0, 0, 0, 0, 0, 0>>)
                  \o Absent
      [] v = "var_att" ->
            \* one short variable with an attribute of two shorts
            Start \o Absent \o Absent \o ListHead(11, 1)
                  \o Var(<<118>>, <<>>,
                         ListHead(12, 1) \o Att(<<97>>, 3, 2, <<0, 7, 0, 8>>),
                         3, 4, 84)
      [] v = "counted_empty" ->
            Start \o ListHead(10, 0) \o ListHead(12, 0) \o ListHead(11, 0)
      [] v = "bad_magic" -> <<67, 68, 70, 2>> \o I32(0) \o Absent
      [] v = "dim_absent_one" -> Start \o ListHead(0, 1) \o Dim(<<120>>, 2)
      [] v = "dim_unknown_none" -> Start \o ListHead(5, 0) \o Absent \o Absent
      [] v = "dim_other_list" -> Start \o ListHead(12, 1) \o Dim(<<120>>, 2)
      [] v = "dim_negative" -> Start \o I32(10) \o MinusOne
      [] v = "att_absent_one" ->
            Start \o Absent \o ListHead(0, 1) \o Att(<<97>>, 4, 1, I32(7))
      [] v = "att_other_list" -> Start \o Absent \o ListHead(10, 0) \o Absent
      [] v = "var_absent_two" -> Start \o Absent \o Absent \o ListHead(0, 2)
      [] v = "var_other_list" -> Start \o Absent \o Absent \o ListHead(12, 0)
      [] v = "var_att_absent_one" ->
            Start \o Absent \o Absent \o ListHead(11, 1)
                  \o Var(<<118>>, <<>>, ListHead(0, 1), 4, 4, 64)
      [] v = "att_type_zero" ->
            Start \o Absent \o ListHead(12, 1) \o Att(<<97>>, 0, 1, I32(7))
                  \o Absent
      [] v = "att_type_seven" ->
            Start \o Absent \o ListHead(12, 1) \o Att(<<97>>, 7, 1, I32(7))
                  \o Absent
      [] v = "var_type_zero" ->
            Start \o Absent \o Absent \o ListHead(11, 1)
                  \o Var(<<118>>, <<>>, Absent, 0, 4, 64)
      [] v = "var_type_seven" ->
            Start \o Absent \o Absent \o ListHead(11, 1)
                  \o Var(<<118>>, <<>>, Absent, 7, 4, 64)
      [] v = "index_beyond" ->
            Start \o TwoDims \o Absent \o ListHead(11, 1)
                  \o Var(<<118>>, <<2>>, Absent, 4, 4, 92)
      [] v = "index_no_dims" ->
            Start \o Absent \o Absent \o ListHead(11, 1)
                  \o Var(<<118>>, <<0>>, Absent, 4, 4, 64)
      [] v = "short_list" -> Start \o ListHead(10, 2) \o Dim(<<120>>, 2)
      [] v = "cut_after_name" ->
            Start \o ListHead(10, 1) \o I32(3) \o <<97, 98, 99>>
      [] v = "cut_in_name" ->
            Start \o ListHead(10, 1) \o I32(3) \o <<97, 98>>

File(v) ==
    CASE v = "A" -> DiskA [] v = "B" -> DiskB [] v = "C" -> DiskC [] v = "D" -> DiskD
      [] OTHER -> [mtime |-> 5, data |-> HeaderBytes(v)]
DiskStates == {"A", "B", "C", "D"}
\* the versions the generic client of the cache sees
ClientVersions == {"A", "B"}

\* os.stat(path): the fields the cache looks at
Stat(d) == [st_mtime |-> d.mtime, st_size |-> Len(d.data)]

\* os.read(fd, n) on a freshly opened descriptor
os_read(d, n) == Prefix(d.data, n)

\* ---------------------------------------------------------------- FileCache
\* An instance is [stat, buffer, offset]; the cache store holds at most one
\* entry (one path): <<>> or <<[mtime, size, buffer]>>.

NoError == "none"
LimitError == "Cache limit exceeded."
ChangedError == "File changed on disk while reading."

\* FileCache.__cache: a store is used iff a location is configured and the
\* cache file exists or may be created
CacheEnabled(location, force, exists) == location /\ (force \/ exists)

\* FileCache.__get
CacheGet(location, force, exists, st) ==
    IF CacheEnabled(location, force, exists) THEN st ELSE <<>>

\* FileCache.__put: the entry is replaced when it differs
CachePut(location, force, exists, st, data) ==
    IF CacheEnabled(location, force, exists) /\ st # <<data>> THEN <<data>> ELSE st

\* shelve.open creates the cache file when __cache lets it be opened
CacheTouched(location, force, exists) ==
    exists \/ CacheEnabled(location, force, exists)

\* FileCache.__init__: cached data is used iff mtime and size both match
EntryMatches(data, stat) ==
    data # <<>> /\ data[1].mtime = stat.st_mtime /\ data[1].size = stat.st_size

FileCacheInit(d, data) ==
    [stat   |-> Stat(d),
     buffer |-> IF EntryMatches(data, Stat(d)) THEN data[1].buffer ELSE <<>>,
     offset |-> 0]

\* grow_buffer, lines 128-134: the number of bytes to fetch
RECURSIVE Doubled(_, _)
Doubled(n, size) == IF n < size THEN Doubled(2 * n, size) ELSE n

FetchSize(len, size) ==
    LET n == Doubled(Max(len, MinRead), size)
    IN  ((n + BlkSize - 1) \div BlkSize) * BlkSize

\* a comparison of the modification time only (not the code)
StatChangedMtimeOnly(new_stat, stat) == new_stat.st_mtime # stat.st_mtime

\* grow_buffer, lines 144-149: has the file changed since the instance's stat
StatChanged(new_stat, stat) ==
    new_stat.st_mtime # stat.st_mtime \/ new_stat.st_size # stat.st_size

\* grow_buffer(size) against the file d as it is on disk now
grow_buffer(self, size, d) ==
    IF Len(self.buffer) >= size
    THEN [self |-> self, err |-> NoError]
    ELSE IF size > CacheLimit
    THEN [self |-> self, err |-> LimitError]
    ELSE LET filled == [self EXCEPT
                          !.buffer = os_read(d, FetchSize(Len(self.buffer), size))]
         IN  IF StatChanged(Stat(d), self.stat)
             THEN [self |-> filled, err |-> ChangedError]
             ELSE [self |-> filled, err |-> NoError]

\* read(size): the offset moves before the buffer grows
read(self, size, d) ==
    LET start == self.offset
        moved == [self EXCEPT !.offset = self.offset + size]
        grown == grow_buffer(moved, moved.offset, d)
    IN  [self |-> grown.self,
         err  |-> grown.err,
         data |-> IF grown.err = NoError
                  THEN PySlice(grown.self.buffer, start, moved.offset)
                  ELSE <<>>]

\* seek(offset, mode)
SEEK_SET == 0
SEEK_CUR == 1
SEEK_END == 2

seek(self, offset, mode) ==
    [self EXCEPT !.offset =
        (CASE mode = SEEK_SET -> 0
           [] mode = SEEK_CUR -> self.offset
           [] mode = SEEK_END -> self.stat.st_size) + offset]

\* close(): the data handed to __put
CloseData(self) ==
    [mtime  |-> self.stat.st_mtime,
     size   |-> self.stat.st_size,
     buffer |-> Prefix(self.buffer, self.offset)]


\* ------------------------------------------------------------- NetCDF types
NC_BYTE == 1
NC_CHAR == 2
NC_SHORT == 3
NC_LONG == 4
NC_FLOAT == 5
NC_DOUBLE == 6
NC_DIMENSION == 10
NC_VARIABLE == 11
NC_ATTRIBUTE == 12

\* NC_TYPE[code].size and NC_TYPE[code].py_code
NC_TYPE_codes == {NC_BYTE, NC_CHAR, NC_SHORT, NC_LONG, NC_FLOAT, NC_DOUBLE}
NC_TYPE_size(code) ==
    CASE code = NC_BYTE -> 1 [] code = NC_CHAR -> 1 [] code = NC_SHORT -> 2
      [] code = NC_LONG -> 4 [] code = NC_FLOAT -> 4 [] code = NC_DOUBLE -> 8
NC_TYPE_py_code(code) ==
    CASE code = NC_BYTE -> "b" [] code = NC_CHAR -> "c" [] code = NC_SHORT -> "h"
      [] code = NC_LONG -> "i" [] code = NC_FLOAT -> "f" [] code = NC_DOUBLE -> "d"

\* hashlib.md5(s).hexdigest(), idealised: a digest that identifies its input
hexdigest(s) == [md5 |-> s]

\* struct.unpack(">...") of one big-endian two's complement integer
RECURSIVE BigEndian(_, _)
BigEndian(bytes, acc) ==
    IF bytes = <<>> THEN acc ELSE BigEndian(Tail(bytes), acc * 256 + Head(bytes))
SignedBE(bytes) ==
    BigEndian(Tail(bytes),
              IF Head(bytes) >= 128 THEN Head(bytes) - 256 ELSE Head(bytes))

\* struct.unpack(">%d%s" % (number, py_code), value); a float is kept as the
\* bytes that encode it
Unpack(code, number, value) ==
    LET size == NC_TYPE_size(code)
        item(k) == SubSeq(value, (k - 1) * size + 1, k * size)
    IN  [k \in 1..number |->
            IF code \in {NC_FLOAT, NC_DOUBLE} THEN <<"float">> \o item(k)
            ELSE SignedBE(item(k))]

\* a skip of four bytes after an aligned payload (not the code)
PadAfter_aligned_too(size) == 4 - (size % 4)

\* get_values: the padding skipped after a payload of `size` bytes
PadAfter(size) == 3 - ((size + 3) % 4)

\* the messages NC3Error is raised with; other failures are named after
\* their Python exception
NC3Errors ==
    {"Not a NetCDF version 1 file.", "Premature end of file.",
     "Non-negative number expected", "Expected dimension array.",
     "Expected attribute array.", "Expected variable descriptions."}
KeyError == "KeyError"
IndexError == "IndexError"

\* ------------------------------------------------------------ header parser
\* parse_header as a machine over the values get_values returns.  The parser
\* is at one of the get_values calls of nc3header.py (p.at) and holds the
\* locals of the loops it is in.  Request gives the arguments of the call it
\* is at; Advance takes the value returned and moves to the next call, to
\* "done", or to "error" with the exception raised.
ParserStart ==
    [at |-> "magic", err |-> NoError, tag |-> 0, left |-> 0, vleft |-> 0,
     rleft |-> 0, in_var |-> FALSE, name |-> <<>>, type |-> 0, size |-> 0,
     numrecords |-> 0, dimensions |-> <<>>, attributes |-> <<>>,
     variables |-> <<>>, acc |-> <<>>, vname |-> <<>>, vdims |-> <<>>,
     vattr |-> <<>>, vtype |-> 0, vsize |-> 0]

Raise(p, e) == [p EXCEPT !.at = "error", !.err = e]

\* the calls that read a string's bytes or an attribute's values
Request(p) ==
    CASE p.at = "magic" -> <<NC_CHAR, 4>>
      [] p.at \in {"dim_name", "att_name", "var_name"} -> <<NC_CHAR, p.size>>
      [] p.at = "att_values" -> <<p.type, p.size>>
      [] OTHER -> <<NC_LONG, 1>>

\* get_values line 234: NC_TYPE[type_code] of an unknown code
RequestError(p) ==
    IF Request(p)[1] \in NC_TYPE_codes THEN NoError ELSE KeyError

\* read_dimensions line 266: the next dimension, or on to the attributes
NextDimension(p) ==
    IF p.left = 0 THEN [p EXCEPT !.at = "att_tag", !.in_var = FALSE]
    ELSE [p EXCEPT !.at = "dim_name_size"]

\* read_attributes line 296 returns to parse_header or to read_variables
AttributesRead(p) ==
    IF p.in_var THEN [p EXCEPT !.at = "var_type", !.vattr = p.acc]
    ELSE [p EXCEPT !.at = "var_tag", !.attributes = p.acc]

\* read_attributes line 285: the next attribute, or the list is done
NextAttribute(p) ==
    IF p.left = 0 THEN AttributesRead(p) ELSE [p EXCEPT !.at = "att_name_size"]

\* read_variables line 306: the next variable, or the header is done
NextVariable(p) ==
    IF p.vleft = 0 THEN [p EXCEPT !.at = "done"]
    ELSE [p EXCEPT !.at = "var_name_size"]

\* read_variables lines 309-310: the next dimension index, or the attributes
NextDimRef(p) ==
    IF p.rleft = 0 THEN [p EXCEPT !.at = "att_tag", !.in_var = TRUE]
    ELSE [p EXCEPT !.at = "var_dimref"]

\* read_non_negative, line 250
NonNegative(p, n, then) ==
    IF n < 0 THEN Raise(p, "Non-negative number expected") ELSE then

\* a list header check that lets an unknown tag with no entries pass (not
\* the code)
ListCount_unknown_empty(p, n, expected, message, start, empty) ==
    IF n < 0 THEN Raise(p, "Non-negative number expected")
    ELSE IF p.tag = expected THEN start
    ELSE IF p.tag # 0 /\ n # 0 THEN Raise(p, message)
    ELSE empty

\* the list headers: tag and count (lines 263-272, 282-293, 303-321)
ListCount(p, n, expected, message, start, empty) ==
    IF n < 0 THEN Raise(p, "Non-negative number expected")
    ELSE IF p.tag = expected THEN start
    ELSE IF p.tag # 0 \/ n # 0 THEN Raise(p, message)
    ELSE empty

Advance(p, v) ==
    CASE p.at = "magic" ->
            IF v # Magic THEN Raise(p, "Not a NetCDF version 1 file.")
            ELSE [p EXCEPT !.at = "numrecords"]
      [] p.at = "numrecords" ->
            NonNegative(p, v[1], [p EXCEPT !.at = "dim_tag", !.numrecords = v[1]])
      \* read_dimensions
      [] p.at = "dim_tag" -> [p EXCEPT !.at = "dim_count", !.tag = v[1]]
      [] p.at = "dim_count" ->
            ListCount(p, v[1], NC_DIMENSION, "Expected dimension array.",
                      NextDimension([p EXCEPT !.left = v[1]]),
                      NextDimension([p EXCEPT !.left = 0]))
      [] p.at = "dim_name_size" ->
            NonNegative(p, v[1], [p EXCEPT !.at = "dim_name", !.size = v[1]])
      [] p.at = "dim_name" -> [p EXCEPT !.at = "dim_value", !.name = v]
      [] p.at = "dim_value" ->
            NonNegative(p, v[1],
                NextDimension([p EXCEPT
                    !.dimensions = Append(p.dimensions,
                                          [name |-> p.name, value |-> v[1]]),
                    !.left = p.left - 1]))
      \* read_attributes
      [] p.at = "att_tag" -> [p EXCEPT !.at = "att_count", !.tag = v[1]]
      [] p.at = "att_count" ->
            ListCount(p, v[1], NC_ATTRIBUTE, "Expected attribute array.",
                      NextAttribute([p EXCEPT !.left = v[1], !.acc = <<>>]),
                      NextAttribute([p EXCEPT !.left = 0, !.acc = <<>>]))
      [] p.at = "att_name_size" ->
            NonNegative(p, v[1], [p EXCEPT !.at = "att_name", !.size = v[1]])
      [] p.at = "att_name" -> [p EXCEPT !.at = "att_type", !.name = v]
      [] p.at = "att_type" -> [p EXCEPT !.at = "att_size", !.type = v[1]]
      [] p.at = "att_size" ->
            NonNegative(p, v[1], [p EXCEPT !.at = "att_values", !.size = v[1]])
      [] p.at = "att_values" ->
            NextAttribute([p EXCEPT
                !.acc = Append(p.acc, [name |-> p.name, value |-> v]),
                !.left = p.left - 1])
      \* read_variables
      [] p.at = "var_tag" -> [p EXCEPT !.at = "var_count", !.tag = v[1]]
      [] p.at = "var_count" ->
            ListCount(p, v[1], NC_VARIABLE, "Expected variable descriptions.",
                      NextVariable([p EXCEPT !.vleft = v[1]]),
                      NextVariable([p EXCEPT !.vleft = 0]))
      [] p.at = "var_name_size" ->
            NonNegative(p, v[1], [p EXCEPT !.at = "var_name", !.size = v[1]])
      [] p.at = "var_name" -> [p EXCEPT !.at = "var_ndims", !.vname = v]
      [] p.at = "var_ndims" ->
            NonNegative(p, v[1],
                NextDimRef([p EXCEPT !.rleft = v[1], !.vdims = <<>>]))
      [] p.at = "var_dimref" ->
            NonNegative(p, v[1],
                IF v[1] >= Len(p.dimensions) THEN Raise(p, IndexError)
                ELSE NextDimRef([p EXCEPT
                        !.vdims = Append(p.vdims, p.dimensions[v[1] + 1]),
                        !.rleft = p.rleft - 1]))
      [] p.at = "var_type" -> [p EXCEPT !.at = "var_size", !.vtype = v[1]]
      [] p.at = "var_size" ->
            NonNegative(p, v[1], [p EXCEPT !.at = "var_start", !.vsize = v[1]])
      \* lines 316-319: the trace line formats the variable, and type_name
      \* looks its type up in NC_TYPE
      [] p.at = "var_start" ->
            NonNegative(p, v[1],
                IF p.vtype \notin NC_TYPE_codes THEN Raise(p, KeyError)
                ELSE NextVariable([p EXCEPT
                    !.variables = Append(p.variables,
                        [name |-> p.vname, dimensions |-> p.vdims,
                         attributes |-> p.vattr, nc_type |-> p.vtype,
                         data_size |-> p.vsize, data_start |-> v[1]]),
                    !.vleft = p.vleft - 1]))

\* the header record a finished parse leaves in the NC3File
Header(p) ==
    [numrecords |-> p.numrecords, dimensions |-> p.dimensions,
     attributes |-> p.attributes, variables |-> p.variables]

\* get_values against the cache instance: read, length check, padding seek
get_values(self, code, number, d) ==
    LET size == NC_TYPE_size(code) * number
        r == read(self, size, d)
    IN  IF r.err # NoError THEN [self |-> r.self, err |-> r.err, value |-> <<>>]
        ELSE IF Len(r.data) < size
        THEN [self |-> r.self, err |-> "Premature end of file.", value |-> <<>>]
        ELSE [self  |-> seek(r.self, PadAfter(size), SEEK_CUR),
              err   |-> NoError,
              value |-> IF code = NC_CHAR THEN r.data
                        ELSE Unpack(code, number, r.data)]

\* parse_header, lines 229-231: header size and fingerprint
Fingerprint(self, d) ==
    LET header_size == self.offset
        r == read(seek(self, 0, SEEK_SET), header_size, d)
    IN  [self |-> r.self, err |-> r.err, header_size |-> header_size,
         fingerprint |-> hexdigest(r.data)]

\* NC3File.__init__ after FileCache(path): one get_values call and what
\* follows it up to the next call.  The outcome is "need" (another value is
\* wanted), "failed" (an exception leaves the constructor) or "parsed".
NC3Step(self, p, d) ==
    LET want == Request(p)
        got  == get_values(self, want[1], want[2], d)
        next == Advance(p, got.value)
        fp   == Fingerprint(got.self, d)
        out(st, s, q, e, hs, dig) ==
            [st |-> st, self |-> s, parser |-> q, err |-> e, header_size |-> hs,
             fingerprint |-> dig]
    IN  IF RequestError(p) # NoError
        THEN out("failed", self, p, RequestError(p), 0, hexdigest(<<>>))
        ELSE IF got.err # NoError
        THEN out("failed", got.self, p, got.err, 0, hexdigest(<<>>))
        ELSE IF next.at = "error"
        THEN out("failed", got.self, next, next.err, 0, hexdigest(<<>>))
        ELSE IF next.at # "done"
        THEN out("need", got.self, next, NoError, 0, hexdigest(<<>>))
        ELSE IF fp.err # NoError
        THEN out("failed", fp.self, next, fp.err, 0, hexdigest(<<>>))
        ELSE out("parsed", fp.self, next, NoError, fp.header_size, fp.fingerprint)

\* --------------------------------------------------------------- Histogram
\* numpy's types at the model's width: uint8 is 0..U8Max, uint16 is
\* 0..U16Max, int32 reaches I32Max, and F32Mask stands for 1.0e30.
U8Max == 3
U16Max == 7
I32Max == 15
F32Mask == 1000

\* Slicer.process lines 424-427
MaskValue(dtype) ==
    CASE dtype = "uint8" -> U8Max
      [] dtype = "uint16" -> U16Max
      [] dtype = "int32" -> I32Max
      [] dtype = "float32" -> F32Mask

None == <<>>
Some(x) == <<x>>

\* Python 2 orders None before every number
PyLessEq(a, b) == a = None \/ (b # None /\ a[1] <= b[1])

\* sum of the first n entries of a sequence
RECURSIVE SumTo(_, _)
SumTo(a, n) == IF n = 0 THEN 0 ELSE a[n] + SumTo(a, n - 1)

Sum(a) == SumTo(a, Len(a))

SeqMax(a) == CHOOSE m \in {a[i] : i \in DOMAIN a} : \A i \in DOMAIN a : a[i] <= m

SeqMin(a) == CHOOSE m \in {a[i] : i \in DOMAIN a} : \A i \in DOMAIN a : m <= a[i]

\* numpy.bincount of a non-empty array of non-negative integers
bincount(a) ==
    [b \in 1..(SeqMax(a) + 1) |-> Cardinality({i \in DOMAIN a : a[i] = b - 1})]

\* ndarray.resize(s): zero-filled up to s entries
resize(a, s) == [b \in 1..s |-> IF b <= Len(a) THEN a[b] ELSE 0]

\* Histogram.__init__.  binsize is num/den (less the factor 1 - 1.0e-12):
\* 1/1 without a range, (maxval - minval)/0x10000 with one.
\* seen is a ghost: how often update has been given each value.
Histogram(mask_value, minval, maxval) ==
    IF maxval # None
    THEN [mask_value |-> mask_value, counts |-> <<>>, total |-> 0, masked |-> 0,
          offset |-> minval[1], num |-> maxval[1] - minval[1], den |-> U16Max + 1,
          seen |-> [v \in {} |-> 0]]
    ELSE [mask_value |-> mask_value, counts |-> <<>>, total |-> 0, masked |-> 0,
          offset |-> 0, num |-> 1, den |-> 1,
          seen |-> [v \in {} |-> 0]]

\* ghost: seen with the entries of one more array
Seen(seen, slice) ==
    [v \in DOMAIN seen \cup {slice[i] : i \in DOMAIN slice} |->
        (IF v \in DOMAIN seen THEN seen[v] ELSE 0)
            + Cardinality({i \in DOMAIN slice : slice[i] = v})]

\* numpy.array(tmp, dtype = 'uint16') of one entry of tmp, line 102.  An
\* integer wraps.  A float is truncated; the cast of a float that uint16
\* cannot hold is undefined in C: the build wraps or saturates (cast), and
\* 0/0 gives 0 in both.
ToUint16(self, x, cast) ==
    IF self.den = 1 THEN (x - self.offset) % (U16Max + 1)
    ELSE IF self.num = 0 THEN 0
    ELSE IF ((x - self.offset) * self.den) \div self.num <= U16Max
    THEN ((x - self.offset) * self.den) \div self.num
    ELSE IF cast = "wrap"
    THEN (((x - self.offset) * self.den) \div self.num) % (U16Max + 1)
    ELSE U16Max

\* Histogram.update, counting every entry once in total (not the code)
Histogram_update_by_size(self, slice, cast) ==
    LET flat == [i \in DOMAIN slice |-> ToUint16(self, slice[i], cast)]
        mask == [i \in DOMAIN flat |->
                    flat[i] = self.mask_value \/ flat[i] < 0 \/ flat[i] > U16Max]
        new_masked == Cardinality({i \in DOMAIN mask : mask[i]})
        new_counts == bincount([i \in DOMAIN flat |-> IF mask[i] THEN 0 ELSE flat[i]])
        s == Max(Len(self.counts), Len(new_counts))
    IN  [self EXCEPT
            !.counts = [b \in 1..s |-> resize(self.counts, s)[b]
                                       + resize(new_counts, s)[b]],
            !.masked = self.masked + new_masked,
            !.total = self.total + Len(flat),
            !.seen = Seen(self.seen, slice)]

\* Histogram.update(slice), slice flattened
Histogram_update(self, slice, cast) ==
    LET flat == [i \in DOMAIN slice |-> ToUint16(self, slice[i], cast)]
        mask == [i \in DOMAIN flat |->
                    flat[i] = self.mask_value \/ flat[i] < 0 \/ flat[i] > U16Max]
        new_masked == Cardinality({i \in DOMAIN mask : mask[i]})
        new_counts == bincount([i \in DOMAIN flat |-> IF mask[i] THEN 0 ELSE flat[i]])
        s == Max(Len(self.counts), Len(new_counts))
    IN  [self EXCEPT
            !.counts = [b \in 1..s |-> resize(self.counts, s)[b]
                                       + resize(new_counts, s)[b]],
            !.masked = self.masked + new_masked,
            !.total = self.total + new_masked + Sum(new_counts),
            !.seen = Seen(self.seen, slice)]

\* offset + i * binsize, in units of 1/den
BinValue(histogram, i) == histogram.offset * histogram.den + i * histogram.num

\* the loop of bottom_percentile; p is in tenths of a percent, so
\* count >= p * (total - masked) / 100.0 is the test below
RECURSIVE BottomScan(_, _, _, _)
BottomScan(histogram, p, i, count) ==
    IF i >= Len(histogram.counts) THEN None
    ELSE IF (count + histogram.counts[i + 1]) * 1000
                >= p * (histogram.total - histogram.masked)
    THEN Some(BinValue(histogram, i))
    ELSE BottomScan(histogram, p, i + 1, count + histogram.counts[i + 1])

\* bottom_percentile with the threshold of 100 - p percent (not the code)
bottom_percentile_complement(histogram, p) == BottomScan(histogram, 1000 - p, 0, 0)

bottom_percentile(histogram, p) == BottomScan(histogram, p, 0, 0)

RECURSIVE TopScan(_, _, _, _)
TopScan(histogram, p, i, count) ==
    IF i < 0 THEN None
    ELSE IF (count + histogram.counts[i + 1]) * 1000
                >= p * (histogram.total - histogram.masked)
    THEN Some(BinValue(histogram, i))
    ELSE TopScan(histogram, p, i - 1, count + histogram.counts[i + 1])

top_percentile(histogram, p) == TopScan(histogram, p, Len(histogram.counts) - 1, 0)

\* ------------------------------------------------------------ volume files
\* The volume the files hold is NX by NY by NZ.  An entry of the directory is
\* the header NC3File gives for the file and the planes stored behind it.
NX == 11
NY == 12
NZ == 13

TypeError == "TypeError"
Mismatch == "variable mismatch between files"
NC3Error == "NC3Error"

SetMin(S) == CHOOSE m \in S : \A x \in S : m <= x

Voxel(dtype, x, y, z) ==
    CASE dtype = "uint8" -> (x + y + z) % (U8Max + 1)
      [] dtype = "uint16" -> (x + 2 * y + 3 * z) % (U16Max + 1)
      [] dtype = "int32" -> ((x * y + z) % (I32Max + 2)) - 1
      [] dtype = "float32" -> ((x + y + 2 * z) % 5) - 2

\* numpy.fromstring of one plane's bytes, shaped (size[1], size[0]), lines
\* 207-208
Plane(dtype, z) ==
    [y \in 1..NY |-> [x \in 1..NX |-> Voxel(dtype, x - 1, y - 1, z)]]

\* ndarray.flatten()
Flatten(data) ==
    [i \in 1..(Len(data) * Len(data[1])) |->
        data[((i - 1) \div Len(data[1])) + 1][((i - 1) % Len(data[1])) + 1]]

NcTypeOf(dtype) ==
    CASE dtype = "uint8" -> NC_BYTE
      [] dtype = "uint16" -> NC_SHORT
      [] dtype = "int32" -> NC_LONG
      [] dtype = "float32" -> NC_FLOAT

\* the origin the volume's files record
Origin == <<2, 0, 5>>

\* a file of the volume: a one-dimensional variable, then the volume
\* variable with the planes zlo..zhi, of which `stored` are complete on disk.
\* `path` is the place of the file's full path in the order of the paths,
\* `base` the file's name.  A stray file is no NetCDF file, a packed one is
\* bzip2-compressed: NC3File, which reads the bytes as they are, rejects both.
ShardFile(path, dtype, zlo, zhi, stored, defect) ==
    [path |-> path,
     base |-> CASE defect = "stray" -> <<"l", "o", "g">>
                [] defect = "packed" -> <<"b", Digit(path), "_", "n", "c", ".", "b", "z", "2">>
                [] OTHER -> <<"b", Digit(path), ".", "n", "c">>,
     ok |-> defect \notin {"unreadable", "stray", "packed"},
     attributes |-> <<>>,
     variables |->
        <<[name |-> "coords",
           dimensions |-> <<[name |-> "n", value |-> 3]>>,
           attributes |-> <<>>,
           nc_type |-> NC_DOUBLE],
          [name |-> IF defect = "renamed" THEN "other" ELSE "vol",
           dimensions |-> <<[name |-> "z", value |-> zhi - zlo + 1],
                            [name |-> "y", value |-> NY],
                            [name |-> "x", value |-> NX]>>,
           attributes |->
               <<[name |-> "zdim_total", value |-> <<NZ>>],
                 [name |-> "zdim_range", value |-> <<zlo, zhi>>],
                 [name |-> "coordinate_origin_xyz",
                  value |-> IF defect = "origin" THEN <<0, 0, 0>> ELSE Origin]>>,
           nc_type |-> CASE defect = "double" -> NC_DOUBLE
                         [] defect = "type" ->
                                IF dtype = "uint8" THEN NC_SHORT ELSE NC_BYTE
                         [] OTHER -> NcTypeOf(dtype)]>>,
     first |-> zlo,
     stored |-> stored]

\* the whole volume in one file, without the attributes of a split volume;
\* the origin is a global attribute
WholeFile(dtype) ==
    [path |-> 0,
     base |-> <<"A", ".", "n", "c">>,
     ok |-> TRUE,
     attributes |-> <<[name |-> "coordinate_origin_xyz", value |-> Origin]>>,
     variables |->
        <<[name |-> "vol",
           dimensions |-> <<[name |-> "z", value |-> NZ],
                            [name |-> "y", value |-> NY],
                            [name |-> "x", value |-> NX]>>,
           attributes |-> <<>>,
           nc_type |-> NcTypeOf(dtype)]>>,
     first |-> 0,
     stored |-> NZ]

\* looksLikeNetCDF(name), nc3header.py lines 25-28
looksLikeNetCDF(name) ==
    LET bare == IF EndsWith(name, <<".", "b", "z", "2">>)
                THEN SubSeq(name, 1, Len(name) - 4) ELSE name
    IN  EndsWith(bare, <<"_", "n", "c">>) \/ EndsWith(bare, <<".", "n", "c">>)

NoFiles == "No NetCDF files found."

\* NC3HeaderInfo.__init__: the files collected under the path and the one
\* whose header is read
NC3HeaderInfo(isdir, listing) ==
    LET entries == IF isdir
                   THEN SortSeq(SelectSeq(listing, LAMBDA f : looksLikeNetCDF(f.base)),
                                LAMBDA a, b : a.path < b.path)
                   ELSE listing
    IN  IF entries = <<>>
        THEN [err |-> NoFiles, entries |-> entries, header_path |-> None]
        ELSE IF ~entries[1].ok
        THEN [err |-> NC3Error, entries |-> entries, header_path |-> None]
        ELSE [err |-> NoError, entries |-> entries,
              header_path |-> Some(entries[1].path)]

\* ------------------------------------------------------------ make_slices
\* get_attribute(file, var, name)
get_attribute(file, var, name) ==
    LET in_var == {i \in DOMAIN var.attributes : var.attributes[i].name = name}
        in_file == {i \in DOMAIN file.attributes : file.attributes[i].name = name}
    IN  IF in_var # {} THEN Some(var.attributes[SetMin(in_var)].value)
        ELSE IF in_file # {} THEN Some(file.attributes[SetMin(in_file)].value)
        ELSE None

NoVariable ==
    [err |-> NoError, name |-> "", size |-> <<0, 0, 0>>, origin |-> <<0, 0, 0>>,
     dtype |-> ""]

\* VolumeVariable(file, var); size is (x, y, z)
VolumeVariable(file, var) ==
    LET dims == var.dimensions
        zdim_total == get_attribute(file, var, "zdim_total")
        origin == get_attribute(file, var, "coordinate_origin_xyz")
        code == NC_TYPE_py_code(var.nc_type)
    IN  IF Len(dims) < 3 THEN [NoVariable EXCEPT !.err = IndexError]
        ELSE IF code \notin {"b", "h", "i", "f"}
        THEN [NoVariable EXCEPT !.err = KeyError]
        ELSE [err |-> NoError,
              name |-> var.name,
              size |-> <<dims[3].value, dims[2].value,
                         IF zdim_total # None THEN zdim_total[1][1]
                         ELSE dims[1].value>>,
              origin |-> IF origin = None \/ origin[1] = <<>> THEN <<0, 0, 0>>
                         ELSE origin[1],
              dtype |-> CASE code = "b" -> "uint8" [] code = "h" -> "uint16"
                          [] code = "i" -> "int32" [] code = "f" -> "float32"]

\* VolumeVariable.__eq__ comparing name, size and dtype only (not the code)
VolumeVariable_eq_without_origin(self, other) ==
    self.name = other.name /\ self.size = other.size /\ self.dtype = other.dtype

\* VolumeVariable.__eq__
VolumeVariable_eq(self, other) ==
    /\ self.name = other.name
    /\ self.size = other.size
    /\ self.origin = other.origin
    /\ self.dtype = other.dtype

\* find_variable keeping the last variable that fits (not the code)
find_variable_last(file) ==
    LET fit == {i \in DOMAIN file.variables :
                   /\ Len(file.variables[i].dimensions) = 3
                   /\ file.variables[i].dimensions[1].value > 1
                   /\ NC_TYPE_py_code(file.variables[i].nc_type)
                          \in {"b", "h", "i", "f"}}
    IN  IF fit = {} THEN None
        ELSE Some(VolumeVariable(file, file.variables[SetMax(fit)]))

\* find_variable(path) on the header of the file at the path
find_variable(file) ==
    LET fit == {i \in DOMAIN file.variables :
                   /\ Len(file.variables[i].dimensions) = 3
                   /\ file.variables[i].dimensions[1].value > 1
                   /\ NC_TYPE_py_code(file.variables[i].nc_type)
                          \in {"b", "h", "i", "f"}}
    IN  IF fit = {} THEN None
        ELSE Some(VolumeVariable(file, file.variables[SetMin(fit)]))

\* Slice(size, type, axis, pos): content is numpy.zeros(slice_dims)
Slice(size, axis, pos) ==
    LET slice_dims == CASE axis = "x" -> <<size[3], size[2]>>
                        [] axis = "y" -> <<size[3], size[1]>>
                        [] axis = "z" -> <<size[2], size[1]>>
    IN  [axis |-> axis, pos |-> pos,
         content |-> [r \in 1..slice_dims[1] |-> [c \in 1..slice_dims[2] |-> 0]]]

\* a numpy index into an axis of n entries, from 1; 0 for an IndexError
PyIndex(i, n) ==
    IF 0 <= i /\ i < n THEN i + 1
    ELSE IF -n <= i /\ i < 0 THEN n + i + 1
    ELSE 0

\* Slice.update copying every plane into a slice on z (not the code)
Slice_update_any_z(self, z_slice, z_pos) ==
    LET row == PyIndex(z_pos, Len(self.content))
    IN  CASE self.axis = "x" ->
                IF row = 0 THEN [err |-> IndexError, slice |-> self]
                ELSE [err |-> NoError,
                      slice |-> [self EXCEPT !.content[row] =
                          [y \in DOMAIN z_slice |-> z_slice[y][self.pos + 1]]]]
          [] self.axis = "y" ->
                IF row = 0 THEN [err |-> IndexError, slice |-> self]
                ELSE [err |-> NoError,
                      slice |-> [self EXCEPT !.content[row] = z_slice[self.pos + 1]]]
          [] self.axis = "z" ->
                [err |-> NoError, slice |-> [self EXCEPT !.content = z_slice]]

\* Slice.update(z_slice, z_pos)
Slice_update(self, z_slice, z_pos) ==
    LET row == PyIndex(z_pos, Len(self.content))
    IN  CASE self.axis = "x" ->
                IF row = 0 THEN [err |-> IndexError, slice |-> self]
                ELSE [err |-> NoError,
                      slice |-> [self EXCEPT !.content[row] =
                          [y \in DOMAIN z_slice |-> z_slice[y][self.pos + 1]]]]
          [] self.axis = "y" ->
                IF row = 0 THEN [err |-> IndexError, slice |-> self]
                ELSE [err |-> NoError,
                      slice |-> [self EXCEPT !.content[row] = z_slice[self.pos + 1]]]
          [] self.axis = "z" ->
                IF z_pos = self.pos
                THEN [err |-> NoError, slice |-> [self EXCEPT !.content = z_slice]]
                ELSE [err |-> NoError, slice |-> self]

\* axis.upper()
Upper(axis) == CASE axis = "x" -> "X" [] axis = "y" -> "Y" [] axis = "z" -> "Z"

\* the name with the axis as it is given (not the code)
SliceName_without_upper(axis, number, basename) ==
    <<"s", "l", "i", "c", "e", axis>> \o Decimal(number) \o <<"_">>
        \o basename \o <<".", "p", "n", "g">>

\* the name "slice%c%d_%s.png" % (axis.upper(), pos + offset, basename)
SliceName(axis, number, basename) ==
    <<"s", "l", "i", "c", "e", Upper(axis)>> \o Decimal(number) \o <<"_">>
        \o basename \o <<".", "p", "n", "g">>

\* sizeprefix(thumb_size): "__%sx%s__" % thumb_size, or "" for None
sizeprefix(thumb_size) ==
    IF thumb_size = None THEN <<>>
    ELSE <<"_", "_">> \o Decimal(thumb_size[1]) \o <<"x">>
             \o Decimal(thumb_size[2]) \o <<"_", "_">>

\* the names and actions the output tuple pairs up, lines 442-445 and
\* 481-484: "for (s, n, a) in slices for sz in self.sizes"
output_names(slices, sizes) ==
    [i \in 1..(Len(slices) * Len(sizes)) |->
        [name |-> sizeprefix(sizes[((i - 1) % Len(sizes)) + 1])
                      \o slices[((i - 1) \div Len(sizes)) + 1].n,
         action |-> slices[((i - 1) \div Len(sizes)) + 1].a]]

\* the delta that process() passes to default_slice_set
Delta == 10

\* default_slice_set with the bound included (not the code)
default_slice_set_from_delta(var, delta, basename) ==
    LET pos == [i \in 1..3 |-> (var.size[i] - 1) \div 2]
        size == var.size
        slice_and_name(axis, at, offset) ==
            [s |-> Slice(size, axis, at), n |-> SliceName(axis, at + offset, basename)]
    IN  (IF size[2] >= delta /\ size[3] >= delta
         THEN <<slice_and_name("x", pos[1], var.origin[1])>> ELSE <<>>)
        \o (IF size[1] >= delta /\ size[3] >= delta
            THEN <<slice_and_name("y", pos[2], var.origin[2])>> ELSE <<>>)
        \o (IF size[1] >= delta /\ size[2] >= delta
            THEN <<slice_and_name("z", pos[3], var.origin[3])>> ELSE <<>>)

\* default_slice_set(var, delta, basename)
default_slice_set(var, delta, basename) ==
    LET pos == [i \in 1..3 |-> (var.size[i] - 1) \div 2]
        size == var.size
        slice_and_name(axis, at, offset) ==
            [s |-> Slice(size, axis, at), n |-> SliceName(axis, at + offset, basename)]
    IN  (IF size[2] > delta /\ size[3] > delta
         THEN <<slice_and_name("x", pos[1], var.origin[1])>> ELSE <<>>)
        \o (IF size[1] > delta /\ size[3] > delta
            THEN <<slice_and_name("y", pos[2], var.origin[2])>> ELSE <<>>)
        \o (IF size[1] > delta /\ size[2] > delta
            THEN <<slice_and_name("z", pos[3], var.origin[3])>> ELSE <<>>)

\* z_slices up to its loop: "raise", "return" (no variable of the name), or
\* "open" with the range of z to yield
z_slices_open(variable, file) ==
    LET named == {i \in DOMAIN file.variables : file.variables[i].name = variable.name}
        var == file.variables[SetMin(named)]
        mine == VolumeVariable(file, var)
        z_range == get_attribute(file, var, "zdim_range")
        out(st, err, z, stop) == [st |-> st, err |-> err, z |-> z, stop |-> stop]
    IN  IF ~file.ok THEN out("raise", NC3Error, 0, 0)
        ELSE IF named = {} THEN out("return", NoError, 0, 0)
        ELSE IF mine.err # NoError THEN out("raise", mine.err, 0, 0)
        ELSE IF ~VolumeVariable_eq(mine, variable) THEN out("raise", Mismatch, 0, 0)
        ELSE IF z_range = None THEN out("open", NoError, 0, variable.size[3])
        ELSE out("open", NoError, z_range[1][1], z_range[1][2] + 1)

\* the loop of z_slices going on after "insufficient data" (not the code)
z_slices_next_without_break(gen, file, dtype) ==
    [item |-> IF gen.read >= file.stored
              THEN [z |-> gen.z, data |-> None, note |-> "insufficient data"]
              ELSE [z |-> gen.z, data |-> Some(Plane(dtype, file.first + gen.read)),
                    note |-> ""],
     gen |-> IF gen.z + 1 < gen.stop
             THEN Some([gen EXCEPT !.z = gen.z + 1, !.read = gen.read + 1])
             ELSE None]

\* one turn of the loop of z_slices, lines 201-209: the item yielded, and the
\* generator after it (None when the next resumption ends it)
z_slices_next(gen, file, dtype) ==
    IF gen.read >= file.stored
    THEN [item |-> [z |-> gen.z, data |-> None, note |-> "insufficient data"],
          gen |-> None]
    ELSE [item |-> [z |-> gen.z, data |-> Some(Plane(dtype, file.first + gen.read)),
                    note |-> ""],
          gen |-> IF gen.z + 1 < gen.stop
                  THEN Some([gen EXCEPT !.z = gen.z + 1, !.read = gen.read + 1])
                  ELSE None]

\* Exception("unexpected array type: ...")
UnexpectedType == "unexpected array type"

\* image_data taking the fixed colours from hi = 1 on (not the code)
image_data_fixed_from_one(slice, dtype, lo, hi) ==
    [err |-> IF dtype \in {"uint8", "uint16", "int32", "float32"}
             THEN TypeError ELSE UnexpectedType,
     img_mode |-> CASE dtype = "uint8" ->
                         IF hi = None \/ hi[1] < 1 THEN "black_and_white"
                         ELSE "color_coded_fixed"
                    [] dtype = "uint16" -> "grayscale"
                    [] dtype = "int32" -> "color_coded"
                    [] dtype = "float32" -> "grayscale"
                    [] OTHER -> ""]

\* image_data(slice, lo, hi, mask_val, info, thumb_size): the mode is chosen,
\* then make_image.make_image, which takes five arguments, is called with
\* seven
image_data(slice, dtype, lo, hi) ==
    [err |-> IF dtype \in {"uint8", "uint16", "int32", "float32"}
             THEN TypeError ELSE UnexpectedType,
     img_mode |-> CASE dtype = "uint8" ->
                         IF PyLessEq(hi, Some(1)) THEN "black_and_white"
                         ELSE "color_coded_fixed"
                    [] dtype = "uint16" -> "grayscale"
                    [] dtype = "int32" -> "color_coded"
                    [] dtype = "float32" -> "grayscale"
                    [] OTHER -> ""]

\* ------------------------------------------------------------------ Slicer
\* path names are sequences of characters
StartsWith(str, prefix) ==
    Len(str) >= Len(prefix) /\ SubSeq(str, 1, Len(prefix)) = prefix

\* re.sub("^" + old, new, str)
SubPrefix(old, new, str) ==
    IF StartsWith(str, old) THEN new \o SubSeq(str, Len(old) + 1, Len(str)) ELSE str

\* re.sub("/$", "", path)
StripSlash(path) ==
    IF path # <<>> /\ path[Len(path)] = "/" THEN SubSeq(path, 1, Len(path) - 1)
    ELSE path

\* re.sub("[._]nc$", "", name)
StripNc(name) ==
    IF /\ Len(name) >= 3
       /\ name[Len(name) - 2] \in {".", "_"}
       /\ name[Len(name) - 1] = "n"
       /\ name[Len(name)] = "c"
    THEN SubSeq(name, 1, Len(name) - 3)
    ELSE name

\* Slicer.__init__
Slicer(path, existing, replace, dry_run, sizes) ==
    [path |-> StripSlash(path),
     name |-> StripNc(os_path_basename(StripSlash(path))),
     basename |-> SubPrefix(<<"t", "o", "m", "o">>, <<"t", "o", "m">>,
                     SubPrefix(<<"s", "e", "g", "m", "e", "n", "t", "e", "d">>,
                               <<"s", "e", "g">>,
                               StripNc(os_path_basename(StripSlash(path))))),
     existing |-> existing, replace |-> replace, dry_run |-> dry_run,
     sizes |-> sizes,
     _slices |-> None,
     \* the position and the locals of process()
     pc |-> "new", err |-> NoError, entries |-> <<>>, var |-> None,
     mask_value |-> 0, slices |-> <<>>, hist |-> None, pass |-> "none",
     k |-> 0, gen |-> None, minval |-> None, maxval |-> None,
     lo |-> None, hi |-> None, unit |-> 1,
     \* ghost: the items z_slices has yielded, and what the accesses to
     \* `slices` after the first came to
     log |-> <<>>, got |-> <<>>]

\* process() up to the loops over the files, lines 400-455
process_begin(self, isdir, listing) ==
    LET entries == IF isdir THEN SortSeq(listing, LAMBDA a, b : a.path < b.path)
                   ELSE listing
        begun == [self EXCEPT !._slices = Some(<<>>), !.entries = entries]
        var == find_variable(entries[1])
        all == default_slice_set(var[1], Delta, self.basename)
        actions == [i \in DOMAIN all |->
                       IF all[i].n \in self.existing
                       THEN (IF self.replace THEN "REPLACE" ELSE "SKIP")
                       ELSE "ADD"]
        slices == SelectSeq([i \in DOMAIN all |->
                                [s |-> all[i].s, n |-> all[i].n, a |-> actions[i]]],
                            LAMBDA t : t.a # "SKIP")
        ready == [begun EXCEPT !.var = var, !.mask_value = MaskValue(var[1].dtype),
                               !.slices = slices]
    IN  IF entries = <<>> THEN [begun EXCEPT !.pc = "done"]
        ELSE IF ~entries[1].ok THEN [begun EXCEPT !.pc = "failed", !.err = NC3Error]
        ELSE IF var = None THEN [begun EXCEPT !.pc = "done"]
        ELSE IF slices = <<>> THEN [ready EXCEPT !.pc = "done"]
        \* make_dummy, which takes three arguments, is called with four
        ELSE IF self.dry_run THEN [ready EXCEPT !.pc = "failed", !.err = TypeError]
        ELSE IF var[1].dtype = "float32"
        THEN [ready EXCEPT !.pc = "streaming", !.pass = "range"]
        ELSE [ready EXCEPT !.pc = "streaming", !.pass = "main",
                           !.hist = Some(Histogram(ready.mask_value, None, None))]

\* "for filename in entries": the next file, and z_slices on it up to its loop
next_file(self) ==
    LET call == z_slices_open(self.var[1], self.entries[self.k + 1])
        at == [self EXCEPT !.k = self.k + 1]
    IN  IF call.st = "raise" THEN [at EXCEPT !.pc = "failed", !.err = call.err]
        ELSE IF call.st = "return" \/ call.z >= call.stop THEN at
        ELSE [at EXCEPT !.gen = Some([z |-> call.z, stop |-> call.stop,
                                      read |-> 0])]

\* one item of z_slices and the body of the loop it is taken in: of
\* data_range (lines 339-346) or of process (lines 460-467)
next_item(self, cast) ==
    LET got == z_slices_next(self.gen[1], self.entries[self.k], self.var[1].dtype)
        item == got.item
        taken == [self EXCEPT
                     !.gen = got.gen,
                     !.log = Append(self.log,
                                 [pass |-> self.pass, shard |-> self.k, z |-> item.z,
                                  plane |-> item.data # None])]
        data == item.data[1]
        lo == SeqMin(Flatten(data))
        hi == SeqMax(Flatten(data))
        updates == [i \in DOMAIN self.slices |->
                       Slice_update(self.slices[i].s, data, item.z)]
        bad == {i \in DOMAIN updates : updates[i].err # NoError}
        updated == [i \in DOMAIN self.slices |->
                       IF bad = {} \/ i < SetMin(bad)
                       THEN [self.slices[i] EXCEPT !.s = updates[i].slice]
                       ELSE self.slices[i]]
        counted == [taken EXCEPT
                       !.hist = Some(Histogram_update(self.hist[1], Flatten(data), cast)),
                       !.slices = updated]
    IN  IF item.data = None THEN taken
        ELSE IF self.pass = "range"
        THEN [taken EXCEPT
                 !.minval = IF self.minval = None \/ lo < self.minval[1]
                            THEN Some(lo) ELSE self.minval,
                 !.maxval = IF self.maxval = None \/ hi > self.maxval[1]
                            THEN Some(hi) ELSE self.maxval]
        ELSE IF bad # {} THEN [counted EXCEPT !.pc = "failed", !.err = IndexError]
        ELSE counted

\* data_range has returned: the histogram is made and the files are gone
\* through again, lines 449-457
range_end(self) ==
    [self EXCEPT !.hist = Some(Histogram(self.mask_value, self.minval, self.maxval)),
                 !.pass = "main", !.k = 0]

\* process() lines 469-478: lo and hi from the histogram, in units of
\* 1/den for a name that starts with "tom"
contrast_range(tom, hist) ==
    [lo |-> IF tom THEN bottom_percentile(hist, 1) ELSE Some(0),
     hi |-> IF tom THEN top_percentile(hist, 1) ELSE Some(Len(hist.counts) - 1)]

\* process() after the loops, lines 469-487: lo and hi, then the first
\* image_data call raises
process_end(self) ==
    LET tom == StartsWith(self.name, <<"t", "o", "m">>)
        lo == contrast_range(tom, self.hist[1]).lo
        hi == contrast_range(tom, self.hist[1]).hi
        first == image_data(self.slices[1].s, self.var[1].dtype, lo, hi)
    IN  IF first.err # NoError
        THEN [self EXCEPT !.lo = lo, !.hi = hi,
                          !.unit = IF tom THEN self.hist[1].den ELSE 1,
                          !.pc = "failed", !.err = first.err]
        ELSE [self EXCEPT !.lo = lo, !.hi = hi,
                          !.unit = IF tom THEN self.hist[1].den ELSE 1,
                          !.pc = "done",
                          !._slices = Some(output_names(self.slices, self.sizes))]

\* the property `slices`, lines 489-498, on a Slicer whose first access is
\* over: process() is called again if _slices is None, else _slices is
\* returned
Slicer_slices(self) ==
    IF self._slices = None THEN [self EXCEPT !.pc = "new", !.err = NoError]
    ELSE [self EXCEPT !.got = Append(self.got, [err |-> NoError,
                                                 value |-> self._slices[1]])]

\* ---------------------------------------------------------- history parser
\* A history text is a sequence of lines; a line is given by whether it
\* starts with white space and by its fields (line.split()).  The words of
\* the model's lines: these are \w+ ...
WordTokens ==
    {"Run", "enabled", "false", "COMMAND", "MESSAGES", "prog", "text", "note",
     "x", "BeginSection", "EndSection", "Results", "from", "module"}

\* ... and "#", "-", ":" and "<mod>" are not.
HLine(indent, fields) == [indent |-> indent, fields |-> fields]

ModuleLine == HLine(FALSE, <<"#", "Results", "from", "module", "<mod>", ":">>)

HistoryLines ==
    {HLine(FALSE, <<>>),
     HLine(FALSE, <<"#", "note">>),
     HLine(FALSE, <<"-", "note">>),
     HLine(TRUE, <<"text">>),
     HLine(TRUE, <<"x", ":", "note">>),
     HLine(FALSE, <<"BeginSection", "Run">>),
     HLine(TRUE, <<"BeginSection", "Run">>),
     HLine(FALSE, <<"BeginSection">>),
     HLine(FALSE, <<"EndSection">>),
     HLine(FALSE, <<"COMMAND", ":", "prog">>),
     HLine(FALSE, <<"MESSAGES", ":">>),
     HLine(FALSE, <<"enabled", "false">>),
     HLine(FALSE, <<"Run", "x">>),
     ModuleLine}

\* the values of a dictionary: a string (its words), a list, a dictionary
\* (its items in the order of the keys)
Str(words) == [t |-> "str", v |-> words]
List(vals) == [t |-> "list", v |-> vals]
Dict(items) == [t |-> "dict", v |-> items]

\* Python's truth value of a string, list or dictionary
Truthy(val) == Len(val.v) > 0

\* a key is <<>> (None or ""), <<name>>, or <<current, name>> for
\* current + '.' + name
NoKey == <<>>

\* str.upper() on the words of the model
str_upper(w) ==
    CASE w = "Run" -> "RUN"
      [] w = "enabled" -> "ENABLED"
      [] w = "false" -> "FALSE"
      [] w = "prog" -> "PROG"
      [] w = "text" -> "TEXT"
      [] w = "note" -> "NOTE"
      [] w = "x" -> "X"
      [] w = "BeginSection" -> "BEGINSECTION"
      [] w = "EndSection" -> "ENDSECTION"
      [] w = "Results" -> "RESULTS"
      [] w = "from" -> "FROM"
      [] w = "module" -> "MODULE"
      [] OTHER -> w

AttributeError == "AttributeError"

\* Patterns.sectionStart and Patterns.sectionEnd: ^\s*BeginSection\b
sectionStart(line) == line.fields # <<>> /\ line.fields[1] = "BeginSection"
sectionEnd(line) == line.fields # <<>> /\ line.fields[1] = "EndSection"

\* Patterns.moduleStart
moduleStart(line) == line.fields = ModuleLine.fields

\* parse_mango_assignment(line)
parse_mango_assignment(line) ==
    [key |-> <<line.fields[1]>>, val |-> Str(Tail(line.fields)), acquisition |-> FALSE]

\* parse_assignment(line): the first pattern asks for a word and ':' or '=',
\* the second for ':' or '=' after capitals only and text behind it; no line
\* of the model matches the third.  `acquisition` tells that the call sets
\* _is_acquisition.
parse_assignment(line, is_acquisition) ==
    IF Len(line.fields) >= 2 /\ line.fields[1] \in WordTokens /\ line.fields[2] = ":"
    THEN [key |-> <<str_upper(line.fields[1])>>,
          val |-> Str(SubSeq(line.fields, 3, Len(line.fields))),
          acquisition |-> TRUE]
    ELSE IF Len(line.fields) >= 2 /\ line.fields[1] = ":"
    THEN [key |-> NoKey, val |-> Str(Tail(line.fields)), acquisition |-> TRUE]
    ELSE IF ~is_acquisition THEN parse_mango_assignment(line)
    ELSE [key |-> NoKey, val |-> Str(<<>>), acquisition |-> FALSE]

\* attr.setdefault(key, []), and .append(val) if asked; attr is the list of
\* the items [key, vals]
SetDefault(attr, key, val, append) ==
    LET at == {i \in DOMAIN attr : attr[i].key = key}
    IN  IF at = {}
        THEN Append(attr, [key |-> key, vals |-> IF append THEN <<val>> ELSE <<>>])
        ELSE IF append
        THEN [attr EXCEPT ![SetMin(at)].vals = Append(attr[SetMin(at)].vals, val)]
        ELSE attr

\* cleanup(attr)
cleanup(attr) ==
    Dict([i \in DOMAIN attr |->
            [key |-> attr[i].key,
             val |-> IF Len(attr[i].vals) = 1
                     THEN (IF Truthy(attr[i].vals[1]) THEN attr[i].vals[1]
                           ELSE Str(<<>>))
                     ELSE IF attr[i].vals = <<>> THEN Str(<<>>)
                     ELSE List(attr[i].vals)]])

\* Parser(text) before parse() reads the first line.  `stack` holds the attr
\* of parse() and, above it, the key and attr of every parse_section call
\* that has not returned.
HistoryParser(text) ==
    [lines |-> text, pos |-> 1,
     _is_mango |-> FALSE, _is_acquisition |-> FALSE,
     _errors |-> <<>>,
     current |-> NoKey, in_messages |-> FALSE,
     stack |-> <<[key |-> NoKey, attr |-> <<>>]>>,
     raw_data |-> Dict(<<>>),
     process |-> NoKey,
     pc |-> "parse", err |-> NoError]

log_error(self, text) == [self EXCEPT !._errors = Append(self._errors, text)]

\* the lines after "key, val = ..." in parse (301-304) or in parse_section
\* (327), for the caller a returning parse_section goes back to
Store(self, key, val) ==
    LET depth == Len(self.stack)
        attr == self.stack[depth].attr
    IN  IF depth = 1
        THEN (IF key = NoKey THEN self
              ELSE [self EXCEPT !.stack[depth].attr =
                                    SetDefault(attr, key, val, Truthy(val))])
        ELSE [self EXCEPT !.stack[depth].attr = SetDefault(attr, key, val, TRUE)]

\* parse_section returns cleanup(attr) to its caller
Return(self) ==
    LET depth == Len(self.stack)
        back == [self EXCEPT !.stack = SubSeq(self.stack, 1, depth - 1)]
    IN  Store(back, self.stack[depth].key, cleanup(self.stack[depth].attr))

\* "key = fields[1]; val = self.parse_section(lines)", lines 292-293 and
\* 321-322, up to the first line parse_section reads
BeginSection(self, line) ==
    IF Len(line.fields) < 2 THEN [self EXCEPT !.pc = "raised", !.err = IndexError]
    ELSE [self EXCEPT !._is_mango = TRUE,
                      !.stack = Append(self.stack,
                                       [key |-> <<line.fields[2]>>, attr |-> <<>>])]

\* one turn of the loop of parse(), lines 254-304
parse(self) ==
    LET line == self.lines[self.pos]
        fields == line.fields
        taken == [self EXCEPT !.pos = self.pos + 1]
        got == parse_assignment(line, self._is_acquisition)
        seen == [taken EXCEPT !._is_acquisition = self._is_acquisition \/ got.acquisition]
    IN  IF self.pos > Len(self.lines)
        THEN [self EXCEPT !.raw_data = cleanup(self.stack[1].attr), !.pc = "analyse"]
        ELSE IF fields = <<>> THEN taken
        ELSE IF fields[1] = "#"
        THEN (IF self.in_messages /\ moduleStart(line)
              THEN [taken EXCEPT !._is_acquisition = TRUE, !.current = <<"mod">>]
              ELSE taken)
        ELSE IF fields[1] = "-" THEN [taken EXCEPT !._is_acquisition = TRUE]
        ELSE IF line.indent
        THEN (IF self.current = NoKey
              THEN Store(taken, <<"__COMMENTS__">>, Str(fields))
              ELSE IF ~self.in_messages THEN Store(taken, self.current, Str(fields))
              ELSE IF got.key # NoKey
              THEN Store(seen, self.current \o got.key, got.val)
              ELSE Store(seen, self.current \o <<"COMMENTS">>, Str(fields)))
        ELSE IF sectionStart(line) THEN BeginSection(taken, line)
        ELSE IF got.key # NoKey
        THEN Store([seen EXCEPT !.current = got.key,
                                !.in_messages = (got.key = <<"MESSAGES">>)],
                   got.key, got.val)
        ELSE seen

\* one turn of the loop of parse_section(), lines 311-327
parse_section(self) ==
    LET line == self.lines[self.pos]
        taken == [self EXCEPT !.pos = self.pos + 1]
        got == parse_mango_assignment(line)
    IN  IF self.pos > Len(self.lines)
        THEN Return(log_error(self, "Matching 'EndSection' is missing."))
        ELSE IF line.fields = <<>> THEN taken
        ELSE IF sectionStart(line) THEN BeginSection(taken, line)
        ELSE IF sectionEnd(line) THEN Return(taken)
        ELSE Store(taken, got.key, got.val)

\* Parser.format
format(self) ==
    IF self._is_mango THEN (IF self._is_acquisition THEN "mixed" ELSE "mango")
    ELSE "acquisition"

\* dict.get(key) on a dictionary value: <<>> for None, else <<value>>
DictGet(dict, key) ==
    LET at == {i \in DOMAIN dict.v : dict.v[i].key = key}
    IN  IF at = {} THEN None ELSE Some(dict.v[SetMin(at)].val)

\* re.match(r'Run(_\d+)?$', key) on the keys of the model
IsRunKey(key) == key = <<"Run">>

\* the test of the first comprehension of analyse_mango (lines 143-145) on
\* an item: "raise" if val has no get() or 'enabled' no lower()
RunCandidate(item) ==
    IF ~IsRunKey(item.key) THEN "no"
    ELSE IF item.val.t # "dict" THEN "raise"
    ELSE IF DictGet(item.val, <<"enabled">>) = None THEN "yes"
    ELSE IF DictGet(item.val, <<"enabled">>)[1].t # "str" THEN "raise"
    ELSE IF DictGet(item.val, <<"enabled">>)[1].v = <<"false">> THEN "no"
    ELSE "yes"

\* the items analyse_mango picks the run section from, lines 142-150
Candidates(data) ==
    LET runs == {i \in DOMAIN data.v : RunCandidate(data.v[i]) = "yes"}
    IN  IF runs # {} THEN runs
        ELSE {i \in DOMAIN data.v : data.v[i].val.t = "dict"}

\* a parameter post_process cannot join (line 381): a list, at a leaf of the
\* flattened value, that holds something other than strings
RECURSIVE BadLeaf(_)
BadLeaf(val) ==
    CASE val.t = "str" -> FALSE
      [] val.t = "list" -> \E j \in DOMAIN val.v : val.v[j].t # "str"
      [] val.t = "dict" -> \E j \in DOMAIN val.v : BadLeaf(val.v[j].val)

\* analyse_mango with candidates[-1] the item at `last` (0: no candidate),
\* and post_process after it: the errors logged, the module named and the
\* exceptions raised; the parameters and inputs gathered are left out
analyse_mango(self, last) ==
    LET data == self.raw_data
        run_section == data.v[last].val
        processes == {i \in DOMAIN run_section.v : run_section.v[i].val.t = "dict"}
        named == IF IsRunKey(data.v[last].key)
                 THEN log_error(self, "No input prefix found in Mango section.")
                 ELSE self
        counted == IF processes = {} THEN log_error(named, "No Mango module name.")
                   ELSE IF Cardinality(processes) > 1
                   THEN log_error(named, "Multiple Mango module names.")
                   ELSE named
    IN  IF \E i \in DOMAIN data.v : RunCandidate(data.v[i]) = "raise"
        THEN [self EXCEPT !.pc = "raised", !.err = AttributeError]
        ELSE IF last = 0
        THEN [log_error(self, "No Mango run section found.") EXCEPT !.pc = "done"]
        ELSE IF processes # {} /\ BadLeaf(run_section.v[SetMin(processes)].val)
        THEN [counted EXCEPT !.pc = "raised", !.err = TypeError]
        ELSE [counted EXCEPT
                 !.process = IF processes = {} THEN NoKey
                             ELSE run_section.v[SetMin(processes)].key,
                 !.pc = "done"]

\* analyse_other, and post_process after it: the exceptions of lines 210,
\* 236 and 381, and the program named; the parameters gathered are left out
analyse_other(self) ==
    LET command == DictGet(self.raw_data, <<"COMMAND">>)
        args == IF command = None THEN <<>> ELSE command[1].v
    IN  IF command # None /\ command[1].t # "str" /\ Truthy(command[1])
        THEN [self EXCEPT !.pc = "raised", !.err = AttributeError]
        ELSE IF \E i \in DOMAIN self.raw_data.v :
                    /\ self.raw_data.v[i].key # <<"COMMAND">>
                    /\ BadLeaf(self.raw_data.v[i].val)
        THEN [self EXCEPT !.pc = "raised", !.err = TypeError]
        ELSE [self EXCEPT !.process = IF args = <<>> THEN NoKey ELSE <<args[1]>>,
                          !.pc = "done"]

\* -------------------------------------------------------------------- History
\* the characters of the names, in the order of their codes
Chars ==
    <<".", "/", "1", "2", "?", "A", "B", "C", "Z", "_",
      "a", "b", "c", "d", "e", "f", "g", "h", "i", "j", "l", "m", "n", "o",
      "p", "r", "s", "t", "x">>

Ord(c) == CHOOSE i \in DOMAIN Chars : Chars[i] = c

LowerCase ==
    {"a", "b", "c", "d", "e", "f", "g", "h", "i", "j", "l", "m", "n", "o",
     "p", "r", "s", "t", "x"}

\* cmp of two numbers
cmp(a, b) == IF a < b THEN -1 ELSE IF a > b THEN 1 ELSE 0

\* cmp of two strings
RECURSIVE str_cmp(_, _)
str_cmp(a, b) ==
    IF a = <<>> \/ b = <<>> THEN cmp(Len(a), Len(b))
    ELSE IF a[1] # b[1] THEN cmp(Ord(a[1]), Ord(b[1]))
    ELSE str_cmp(Tail(a), Tail(b))

\* cmp of two values that are None or a string: None sorts before any string
opt_cmp(a, b) ==
    IF a = None \/ b = None THEN cmp(Len(a), Len(b))
    ELSE str_cmp(a[1], b[1])

\* re.sub('[_.?]nc$', '', name)
StripAnyNc(name) ==
    IF /\ Len(name) >= 3
       /\ name[Len(name) - 2] \in {"_", ".", "?"}
       /\ name[Len(name) - 1] = "n"
       /\ name[Len(name)] = "c"
    THEN SubSeq(name, 1, Len(name) - 3)
    ELSE name

\* re.sub('_header$', '', name)
StripHeader(name) ==
    IF EndsWith(name, <<"_", "h", "e", "a", "d", "e", "r">>) THEN SubSeq(name, 1, Len(name) - 7)
    ELSE name

stripped_name(name) == StripHeader(StripAnyNc(os_path_basename(name)))

TYPE2PREFIX ==
    << <<"Projection_Set", <<"p", "r", "o", "j">>>>,
       <<"Tomographic_Data", <<"t", "o", "m", "o">>>>,
       <<"Tomographic_Data_Floating_Point", <<"t", "o", "m", "o", "_", "f", "l", "o", "a", "t">>>>,
       <<"Tomographic_Data_Container", <<"c", "n", "t", "r", "_", "t", "o", "m", "o">>>>,
       <<"Segmented_Data", <<"s", "e", "g", "m", "e", "n", "t", "e", "d">>>>,
       <<"Distance_Map_Data", <<"d", "i", "s", "t", "a", "n", "c", "e", "_", "m", "a", "p">>>>,
       <<"Medial_Axis_Data", <<"m", "e", "d", "i", "a", "l", "_", "a", "x", "i", "s">>>>,
       <<"Label_Data", <<"l", "a", "b", "e", "l", "s">>>> >>

\* PREFIX2TYPE.get(prefix), "" when the prefix is not in the table
PREFIX2TYPE(prefix) ==
    LET found == {i \in DOMAIN TYPE2PREFIX : TYPE2PREFIX[i][2] = prefix}
    IN  IF found = {} THEN "" ELSE TYPE2PREFIX[CHOOSE i \in found : TRUE][1]

\* Patterns.namePrefix, '^[a-z_]*[a-z]': the length of the match, 0 for none
namePrefix(name) ==
    LET run == {n \in 0..Len(name) :
                   \A i \in 1..n : name[i] \in LowerCase \cup {"_"}}
        ends == {n \in run : n > 0 /\ name[n] \in LowerCase}
    IN  IF ends = {} THEN 0 ELSE SetMax(ends)

\* type_for_name of a name that is None or a string: None, or the type of
\* the table, or the prefix itself when the table does not hold it
type_for_name(name) ==
    LET str == IF name = None THEN <<>> ELSE name[1]
        n == namePrefix(str)
        prefix == SubSeq(str, 1, n)
    IN  IF n = 0 THEN None
        ELSE IF PREFIX2TYPE(prefix) # "" THEN
            Some([type |-> PREFIX2TYPE(prefix), prefix |-> <<>>])
        ELSE Some([type |-> "", prefix |-> prefix])

\* an entry of Process.inputs
ById(identifier) == [key |-> "identifier", val |-> identifier, message |-> FALSE]
ByName(name) == [key |-> "name", val |-> name, message |-> FALSE]
Missing(name) == [key |-> "name", val |-> name, message |-> TRUE]

\* a Process: time is None or the moment format_time writes out, name is
\* None or a string; text and output are given by a number each, and inputs
\* are what collect_inputs gathers from them, as a set
Process(time, name, identifier, text, output, inputs) ==
    [time |-> time, name |-> name, identifier |-> identifier, text |-> text,
     output |-> output, inputs |-> inputs, errors |-> <<>>,
     domain |-> FALSE, data_file |-> None]

result_type(p) == type_for_name(p.name)

\* cmp of two moments that are None or a number: None sorts first
time_cmp(a, b) ==
    IF a = None \/ b = None THEN cmp(Len(a), Len(b)) ELSE cmp(a[1], b[1])

\* Process.__cmp__: result_type is a function of name, so it never decides
Process_cmp(p, q) ==
    IF p.time # q.time THEN time_cmp(p.time, q.time)
    ELSE IF p.identifier # q.identifier THEN str_cmp(p.identifier, q.identifier)
    ELSE IF p.name # q.name THEN opt_cmp(p.name, q.name)
    ELSE IF p.text # q.text THEN cmp(p.text, q.text)
    ELSE cmp(p.output, q.output)

\* p == q for two processes
Process_eq(p, q) == Process_cmp(p, q) = 0

\* list.sort() of the processes at the indices `list` of `items`: the
\* indices in sorted order, equal processes keeping theirs
RECURSIVE sort(_, _)
sort(items, list) ==
    IF list = <<>> THEN <<>>
    ELSE LET rest == sort(items, SubSeq(list, 1, Len(list) - 1))
             last == list[Len(list)]
             before == {i \in DOMAIN rest :
                          Process_cmp(items[rest[i]], items[last]) <= 0}
             at == IF before = {} THEN 0 ELSE SetMax(before)
         IN  SubSeq(rest, 1, at) \o <<last>> \o SubSeq(rest, at + 1, Len(rest))

reverse(list) == [i \in DOMAIN list |-> list[Len(list) + 1 - i]]

DuplicateName == "Duplicate name within history."
DuplicateId == "Duplicate identifier within history."

\* History.__init__ up to extract_processes, which leaves the processes
\* sorted; name is the path the caller gives
History(processes, name) ==
    [name |-> name,
     processes |-> [k \in DOMAIN processes |->
                      processes[sort(processes, [i \in DOMAIN processes |-> i])[k]]],
     _name2process |-> FALSE, _id2process |-> FALSE,
     main |-> 0, returned |-> None]

\* the index process_by_name's table holds for an optional name, 0 for none
FirstNamed(self, name) ==
    LET named == {i \in DOMAIN self.processes : self.processes[i].name = name}
    IN  IF named = {} THEN 0 ELSE SetMin(named)

FirstWithId(self, identifier) ==
    LET found == {i \in DOMAIN self.processes :
                     self.processes[i].identifier = identifier}
    IN  IF found = {} THEN 0 ELSE SetMin(found)

\* the first call of process_by_name builds the table and logs an error on
\* every process whose name is in it already; [self, found]
process_by_name(self, name) ==
    LET logged == [i \in DOMAIN self.processes |->
                     IF FirstNamed(self, self.processes[i].name) # i
                     THEN [self.processes[i] EXCEPT
                             !.errors = Append(@, DuplicateName)]
                     ELSE self.processes[i]]
    IN  [self |-> IF self._name2process THEN self
                  ELSE [self EXCEPT !.processes = logged,
                                    !._name2process = TRUE],
         found |-> FirstNamed(self, Some(name))]

process_by_id(self, identifier) ==
    LET logged == [i \in DOMAIN self.processes |->
                     IF FirstWithId(self, self.processes[i].identifier) # i
                     THEN [self.processes[i] EXCEPT
                             !.errors = Append(@, DuplicateId)]
                     ELSE self.processes[i]]
    IN  [self |-> IF self._id2process THEN self
                  ELSE [self EXCEPT !.processes = logged,
                                    !._id2process = TRUE],
         found |-> FirstWithId(self, identifier)]

\* find_process: every entry has a non-empty identifier or name
find_process(self, entry) ==
    IF entry.key = "identifier" THEN process_by_id(self, entry.val)
    ELSE process_by_name(self, entry.val)

\* the tables that looking up the entries builds
Looked(self, entries) ==
    LET a == IF \E e \in entries : e.key = "identifier"
             THEN process_by_id(self, <<>>).self ELSE self
    IN  IF \E e \in entries : e.key = "name"
        THEN process_by_name(a, <<>>).self ELSE a

\* resolve_inputs keeping a process among its own inputs (not the code)
resolve_inputs_with_self(self) ==
    LET names == UNION {{e \in self.processes[i].inputs : e.key = "name"} :
                           i \in DOMAIN self.processes}
        looked == Looked(self, names)
        resolved(p) ==
            LET named == {e \in p.inputs : e.key = "name"}
                idents ==
                    {e.val : e \in {e \in p.inputs : e.key = "identifier"}}
                    \cup {looked.processes[FirstNamed(looked, Some(e.val))].identifier :
                            e \in {e \in named :
                                     FirstNamed(looked, Some(e.val)) # 0}}
            IN  {Missing(e.val) :
                    e \in {e \in named : FirstNamed(looked, Some(e.val)) = 0}}
                \cup {ById(ident) : ident \in idents}
    IN  [looked EXCEPT !.processes =
            [i \in DOMAIN looked.processes |->
                [looked.processes[i] EXCEPT !.inputs = resolved(looked.processes[i])]]]

\* resolve_inputs: an identifier is kept, a name becomes the identifier of
\* the process of that name unless that has the identifier of p itself, and
\* a name without a process is kept as missing
resolve_inputs(self) ==
    LET names == UNION {{e \in self.processes[i].inputs : e.key = "name"} :
                           i \in DOMAIN self.processes}
        looked == Looked(self, names)
        resolved(p) ==
            LET named == {e \in p.inputs : e.key = "name"}
                idents ==
                    {e.val : e \in {e \in p.inputs : e.key = "identifier"}}
                    \cup {looked.processes[FirstNamed(looked, Some(e.val))].identifier :
                            e \in {e \in named :
                                     /\ FirstNamed(looked, Some(e.val)) # 0
                                     /\ looked.processes[FirstNamed(looked, Some(e.val))].identifier
                                            # p.identifier}}
            IN  {Missing(e.val) :
                    e \in {e \in named : FirstNamed(looked, Some(e.val)) = 0}}
                \cup {ById(ident) : ident \in idents}
    IN  [looked EXCEPT !.processes =
            [i \in DOMAIN looked.processes |->
                [looked.processes[i] EXCEPT !.inputs = resolved(looked.processes[i])]]]

\* the indices in S, ascending
RECURSIVE Ascending(_)
Ascending(S) ==
    IF S = {} THEN <<>> ELSE <<SetMin(S)>> \o Ascending(S \ {SetMin(S)})

\* main_process: the index of the process returned, 0 for None, and the
\* tables built on the way; [self, main]
main_process(self) ==
    LET name == IF self.name # <<>> THEN Some(stripped_name(self.name)) ELSE None
        byname == IF self.name # <<>> THEN process_by_name(self, name[1])
                  ELSE [self |-> self, found |-> 0]
        entries == UNION {self.processes[i].inputs : i \in DOMAIN self.processes}
        looked == Looked(byname.self, entries)
        Found(q) == find_process(looked, q[2]).found
        used == {Found(q) :
                   q \in {q \in UNION {{<<i, e>> : e \in looked.processes[i].inputs} :
                                          i \in DOMAIN looked.processes} :
                            /\ Found(q) # 0
                            /\ ~Process_eq(looked.processes[Found(q)],
                                           looked.processes[q[1]])}}
        unused == {i \in DOMAIN looked.processes :
                      \A u \in used :
                          ~Process_eq(looked.processes[u], looked.processes[i])}
        eligible == reverse(sort(looked.processes, Ascending(unused)))
        target_type == type_for_name(name)
        candidates == SelectSeq(eligible,
                         LAMBDA i : result_type(looked.processes[i]) = target_type)
    IN  IF byname.found # 0 THEN [self |-> byname.self, main |-> byname.found]
        ELSE [self |-> looked,
              main |-> IF candidates # <<>> THEN candidates[1]
                       ELSE IF eligible # <<>> THEN eligible[1]
                       ELSE 0]

\* History.__init__ after extract_processes
History_init(processes, name) ==
    LET chosen == main_process(resolve_inputs(History(processes, name)))
        self == chosen.self
        main == chosen.main
    IN  IF main = 0 THEN self
        ELSE [self EXCEPT
                !.main = main,
                !.processes[main].domain = TRUE,
                !.processes[main].data_file = Some(stripped_name(name)),
                !.processes[main].name =
                    IF @ = None THEN Some(stripped_name(name)) ELSE @]

\* ------------------------------------------------------------- Connection
KeyboardInterrupt == "KeyboardInterrupt"

\* Connection.__init__ with the retry parameters as configured after it, and
\* the position and the locals of post_form
Connection(retry_limit, retry_wait) ==
    [retry_limit |-> retry_limit, retry_wait |-> retry_wait,
     pc |-> "idle", count |-> 0, result |-> None, err |-> NoError,
     \* ghost: the attempts made and the waits, in order
     trace |-> <<>>]

\* post_form up to the loop
post_form(self) ==
    [self EXCEPT !.pc = "attempt", !.count = 0, !.result = None,
                 !.err = NoError, !.trace = <<>>]

\* "return res.status, res.reason, res.read()"
Completes(self, res) ==
    [self EXCEPT !.pc = "returned", !.result = Some(res),
                 !.trace = Append(@, [what |-> "attempt", res |-> Some(res),
                                      ex |-> NoError])]

\* the test with the limit included (not the code)
will_retry_at_limit(count, retry_limit) == count <= retry_limit

\* "if count < self.retry_limit"
will_retry(count, retry_limit) == count < retry_limit

\* "except KeyboardInterrupt" and "except Exception" up to the sleep
Fails(self, ex) ==
    LET tried == [self EXCEPT
                    !.trace = Append(@, [what |-> "attempt", res |-> None,
                                         ex |-> ex])]
    IN  IF ex = KeyboardInterrupt
        THEN [tried EXCEPT !.pc = "raised", !.err = ex]
        ELSE IF will_retry(self.count + 1, self.retry_limit)
        THEN [tried EXCEPT !.pc = "sleep", !.count = @ + 1]
        ELSE [tried EXCEPT !.pc = "raised", !.count = @ + 1, !.err = ex]

\* time.sleep(self.retry_wait) returns, or is interrupted
Slept(self, interrupted) ==
    IF interrupted
    THEN [self EXCEPT !.pc = "raised", !.err = KeyboardInterrupt,
                      !.trace = Append(@, [what |-> "interrupted sleep",
                                           res |-> None, ex |-> KeyboardInterrupt])]
    ELSE [self EXCEPT !.pc = "attempt",
                      !.trace = Append(@, [what |-> "sleep",
                                           res |-> Some(self.retry_wait),
                                           ex |-> NoError])]

\* ------------------------------------------------------------------- state
VARIABLES
    disk,            \* the version of the file now at the path
    cache_location,  \* FileCache.cache_location is set
    force_cache,     \* FileCache.force_cache
    cacheExists,     \* the cache file exists
    store,           \* the cache store's entry for the path, <<>> if none
    inst,            \* the FileCache instance, <<>> before the first open
    opened,          \* ghost: the version the file had when the instance was opened
    hiRead,          \* ghost: end of the highest byte range a read returned
    lastOp,          \* ghost: the last FileCache call and its outcome
    nc,              \* the NC3File under construction
    hist,            \* a Histogram, <<>> before the first is made
    float_cast,      \* what the build's cast of a float beyond uint16 gives
    dataset,         \* the directories on disk and the Slicer arguments
    slicer,          \* the Slicer instance and the position of process()
    outputs,         \* ghost: what the finished Slicer runs produced, by path
    header_info,     \* the NC3HeaderInfo made for each path, <<>> before
    hparser,         \* the history Parser under construction, <<>> if none
    history,         \* the History made of a dataset's attributes, <<>> if none
    call,            \* a function called on its own: arguments and result
    conn             \* the Connection and the position of post_form

cacheVars == <<disk, cache_location, force_cache, cacheExists, store, inst,
               opened, hiRead, lastOp>>

volumeVars == <<hist, float_cast, dataset, slicer, outputs, header_info>>

otherVars == <<hparser, history, call, conn>>

vars == <<cacheVars, nc, volumeVars, otherVars>>

NoOp == [op |-> "none", start |-> 0, target |-> 0, have |-> 0, changed |-> FALSE,
         err |-> NoError, data |-> <<>>]

HistIdle == hist = None /\ float_cast = "wrap"

\* the paths a Slicer is made for: one file, or a directory of files
Paths == {"file", "directory"}

SlicerIdle ==
    /\ dataset = None /\ slicer = None
    /\ outputs = [path \in Paths |-> None]
    /\ header_info = [path \in Paths |-> None]

VolumeIdle == HistIdle /\ SlicerIdle

ParserIdle == hparser = None

HistoryIdle == history = None

CallIdle == call = None

ConnIdle == conn = None

OtherIdle == ParserIdle /\ HistoryIdle /\ CallIdle /\ ConnIdle

NCIdle == [pc |-> "idle", parser |-> ParserStart, err |-> NoError,
           header_size |-> 0, fingerprint |-> hexdigest(<<>>)]

CacheInit ==
    /\ cache_location \in BOOLEAN
    /\ force_cache \in BOOLEAN
    /\ cacheExists = FALSE
    /\ store = <<>>
    /\ inst = <<>>
    /\ opened = "A"
    /\ hiRead = 0
    /\ lastOp = NoOp

\* -- the environment replaces the file by another version; mtime or size
\*    changes
Modify(d) ==
    /\ Stat(File(d)) # Stat(File(disk))
    /\ disk' = d
    /\ UNCHANGED <<cache_location, force_cache, cacheExists, store, inst,
                   opened, hiRead, lastOp, nc>>
    /\ UNCHANGED <<volumeVars, otherVars>>

\* -- FileCache(path)
Open ==
    LET data == CacheGet(cache_location, force_cache, cacheExists, store)
    IN  /\ inst = <<>>
        /\ inst' = <<FileCacheInit(File(disk), data)>>
        /\ cacheExists' = CacheTouched(cache_location, force_cache, cacheExists)
        /\ opened' = disk
        /\ hiRead' = 0
        /\ lastOp' = [NoOp EXCEPT !.op = "open"]
        /\ UNCHANGED <<disk, cache_location, force_cache, store, nc>>
        /\ UNCHANGED <<volumeVars, otherVars>>

\* -- instance.read(size).  A call that raised is followed by close() only:
\*    the repository's callers close the file in a finally clause
\*    (nc3header.py:212-215, nc3files.py:46-49) and let the exception pass.
Read(size) ==
    /\ inst # <<>>
    /\ lastOp.err = NoError
    /\ inst[1].offset + size <= MaxOffset
    /\ LET r == read(inst[1], size, File(disk))
       IN  /\ inst' = <<r.self>>
           /\ hiRead' = IF r.err = NoError /\ r.data # <<>>
                        THEN Max(hiRead, inst[1].offset + Len(r.data))
                        ELSE hiRead
           /\ lastOp' = [op |-> "read", start |-> inst[1].offset,
                         target |-> inst[1].offset + size,
                         have |-> Len(inst[1].buffer),
                         changed |-> Stat(File(disk)) # inst[1].stat,
                         err |-> r.err, data |-> r.data]
    /\ UNCHANGED <<disk, cache_location, force_cache, cacheExists, store, opened,
                   nc>>
    /\ UNCHANGED <<volumeVars, otherVars>>

\* -- instance.seek(offset, mode)
Seek(offset, mode) ==
    /\ inst # <<>>
    /\ lastOp.err = NoError
    /\ LET s == seek(inst[1], offset, mode)
       IN  /\ s.offset >= 0
           /\ s.offset <= MaxOffset
           /\ inst' = <<s>>
    /\ lastOp' = [NoOp EXCEPT !.op = "seek"]
    /\ UNCHANGED <<disk, cache_location, force_cache, cacheExists, store,
                   opened, hiRead, nc>>
    /\ UNCHANGED <<volumeVars, otherVars>>

\* -- instance.close(); the callers drop the instance after it
Close ==
    /\ inst # <<>>
    /\ store' = CachePut(cache_location, force_cache, cacheExists, store,
                         CloseData(inst[1]))
    /\ cacheExists' = CacheTouched(cache_location, force_cache, cacheExists)
    /\ inst' = <<>>
    /\ lastOp' = [NoOp EXCEPT !.op = "close"]
    /\ UNCHANGED <<disk, cache_location, force_cache, opened, hiRead, nc>>
    /\ UNCHANGED <<volumeVars, otherVars>>

\* the calls of the generic client
ReadSizes == {8, 48}
SeekArgs == {<<0, SEEK_SET>>, <<8, SEEK_CUR>>, <<0, SEEK_END>>}

\* The file stays as it is: the calls of one client after another.
Init ==
    /\ CacheInit
    /\ disk \in ClientVersions
    /\ nc = NCIdle
    /\ VolumeIdle
    /\ OtherIdle

Next ==
    \/ Open
    \/ \E n \in ReadSizes : Read(n)
    \/ \E a \in SeekArgs : Seek(a[1], a[2])
    \/ Close

Spec == Init /\ [][Next]_vars

\* The same client while the environment replaces the file.
NextChange ==
    \/ \E d \in ClientVersions : Modify(d)
    \/ Next

SpecChange == Init /\ [][NextChange]_vars

\* ------------------------------------------------- NC3File over the cache
\* -- NC3File(path), line 211: FileCache(path)
NC3Open ==
    /\ nc.pc # "parsing"
    /\ LET data == CacheGet(cache_location, force_cache, cacheExists, store)
       IN  inst' = <<FileCacheInit(File(disk), data)>>
    /\ cacheExists' = CacheTouched(cache_location, force_cache, cacheExists)
    /\ opened' = disk
    /\ nc' = [NCIdle EXCEPT !.pc = "parsing"]
    /\ UNCHANGED <<disk, cache_location, force_cache, store, hiRead, lastOp>>
    /\ UNCHANGED <<volumeVars, otherVars>>

\* -- parse_header: one more value is read and the parser wants another
NC3GetValues ==
    /\ nc.pc = "parsing"
    /\ \E s \in {NC3Step(inst[1], nc.parser, File(disk))} :
           /\ s.st = "need"
           /\ inst' = <<s.self>>
           /\ nc' = [nc EXCEPT !.parser = s.parser]
    /\ UNCHANGED <<disk, cache_location, force_cache, cacheExists, store, opened,
                   hiRead, lastOp>>
    /\ UNCHANGED <<volumeVars, otherVars>>

\* -- parse_header raises; line 215 closes the file on the way out
NC3Raise ==
    /\ nc.pc = "parsing"
    /\ \E s \in {NC3Step(inst[1], nc.parser, File(disk))} :
           /\ s.st = "failed"
           /\ inst' = <<>>
           /\ store' = CachePut(cache_location, force_cache, cacheExists, store,
                                CloseData(s.self))
           /\ nc' = [NCIdle EXCEPT !.pc = "failed", !.err = s.err]
    /\ cacheExists' = CacheTouched(cache_location, force_cache, cacheExists)
    /\ UNCHANGED <<disk, cache_location, force_cache, opened, hiRead, lastOp>>
    /\ UNCHANGED <<volumeVars, otherVars>>

\* -- parse_header returns: header size, fingerprint, and the file is closed
NC3Parsed ==
    /\ nc.pc = "parsing"
    /\ \E s \in {NC3Step(inst[1], nc.parser, File(disk))} :
           /\ s.st = "parsed"
           /\ inst' = <<>>
           /\ store' = CachePut(cache_location, force_cache, cacheExists, store,
                                CloseData(s.self))
           /\ nc' = [pc |-> "parsed", parser |-> s.parser, err |-> NoError,
                     header_size |-> s.header_size,
                     fingerprint |-> s.fingerprint]
    /\ cacheExists' = CacheTouched(cache_location, force_cache, cacheExists)
    /\ UNCHANGED <<disk, cache_location, force_cache, opened, hiRead, lastOp>>
    /\ UNCHANGED <<volumeVars, otherVars>>

InitNC3 ==
    /\ CacheInit
    /\ disk \in DiskStates
    /\ nc = NCIdle
    /\ VolumeIdle
    /\ OtherIdle

NextNC3 ==
    \/ \E d \in DiskStates : Modify(d)
    \/ NC3Open
    \/ NC3GetValues
    \/ NC3Raise
    \/ NC3Parsed

SpecNC3 == InitNC3 /\ [][NextNC3]_vars

\* NC3File(path) on each of the headers above, the file staying as it is
HeaderFiles == DiskStates \cup HeaderNames

InitHeader ==
    /\ CacheInit
    /\ disk \in HeaderFiles
    /\ nc = NCIdle
    /\ VolumeIdle
    /\ OtherIdle

NextHeader ==
    \/ NC3Open
    \/ NC3GetValues
    \/ NC3Raise
    \/ NC3Parsed

SpecHeader == InitHeader /\ [][NextHeader]_vars

\* --------------------------------------------------- a Histogram in use
\* no file is open while the arrays are counted
CacheIdle ==
    /\ CacheInit
    /\ cache_location = FALSE
    /\ force_cache = FALSE
    /\ disk = "A"
    /\ nc = NCIdle

\* the data types and, for float32, the ranges data_range can give
DTypes == {"uint8", "uint16", "int32", "float32"}
FloatRanges == {<<0, 0>>, <<0, 3>>, <<-2, 2>>}

\* entries an array of the type can hold
DTypeValues(dtype) ==
    CASE dtype = "uint8" -> 0..U8Max
      [] dtype = "uint16" -> {0, 1, U16Max - 1, U16Max}
      [] dtype = "int32" -> {-1, 0, 1, U16Max, U16Max + 1, I32Max}

\* the arrays update is called with: entries of the data type the histogram
\* was made for; with a range, entries within it
HistValues(h) ==
    IF h.den # 1 THEN h.offset..(h.offset + h.num)
    ELSE CASE h.mask_value = U8Max -> DTypeValues("uint8")
           [] h.mask_value = U16Max -> DTypeValues("uint16")
           [] OTHER -> DTypeValues("int32")

MaxEntries == 4

HistSlices(h) ==
    {<<a>> : a \in HistValues(h)}
        \cup {<<a, b>> : a \in HistValues(h), b \in HistValues(h)}

\* every array of one or two entries
AllSlices ==
    {<<a>> : a \in -2..I32Max} \cup {<<a, b>> : a \in -2..I32Max, b \in -2..I32Max}

\* -- Histogram(mask_value), lines 452-455
HistNew(dtype) ==
    /\ hist = None
    /\ dtype # "float32"
    /\ hist' = Some(Histogram(MaskValue(dtype), None, None))
    /\ UNCHANGED <<cacheVars, nc, otherVars, float_cast, dataset, slicer, outputs, header_info>>

\* -- Histogram(mask_value, minval, maxval), lines 449-451
HistNewRange(r) ==
    /\ hist = None
    /\ hist' = Some(Histogram(MaskValue("float32"), Some(r[1]), Some(r[2])))
    /\ UNCHANGED <<cacheVars, nc, otherVars, float_cast, dataset, slicer, outputs, header_info>>

\* -- hist.update(slice), in the loops of process()
HistUpdate(slice) ==
    /\ hist # None
    /\ CallIdle
    /\ slice \in HistSlices(hist[1])
    /\ Sum(hist[1].counts) + Len(slice) <= MaxEntries
    /\ hist' = Some(Histogram_update(hist[1], slice, float_cast))
    /\ UNCHANGED <<cacheVars, nc, otherVars, float_cast, dataset, slicer, outputs, header_info>>

\* -- process() after the loops, for a Slicer named tom... or otherwise: lo
\*    and hi are taken from the histogram
ContrastRange(tom) ==
    /\ hist # None
    /\ CallIdle
    /\ call' = [op |-> "contrast_range", tom |-> tom,
                result |-> Some(contrast_range(tom, hist[1]))]
    /\ UNCHANGED <<cacheVars, nc, volumeVars, hparser, history, conn>>

InitHist ==
    /\ CacheIdle
    /\ OtherIdle
    /\ hist = None
    /\ float_cast \in {"wrap", "saturate"}
    /\ SlicerIdle

NextHist ==
    \/ \E dtype \in DTypes : HistNew(dtype)
    \/ \E r \in FloatRanges : HistNewRange(r)
    \/ \E slice \in AllSlices : HistUpdate(slice)
    \/ \E tom \in BOOLEAN : ContrastRange(tom)

SpecHist == InitHist /\ [][NextHist]_vars

\* ------------------------------------------------------- a Slicer in use
\* The volume lies on disk twice: whole in one file, and split over the
\* files of a directory.  A Slicer is made for one path after the other.
Halves(dtype, defect) ==
    <<ShardFile(1, dtype, 0, 5, 6, "none"),
      ShardFile(2, dtype, 6, NZ - 1, NZ - 6, defect)>>

\* the directory listings (os.walk gives the files in any order)
Listing(scenario, dtype) ==
    CASE scenario = "halves" -> Halves(dtype, "none")
      [] scenario = "unordered" ->
            <<ShardFile(2, dtype, 0, 6, 7, "none"),
              ShardFile(1, dtype, 7, NZ - 1, NZ - 7, "none")>>
      [] scenario = "thin_first" ->
            <<ShardFile(1, dtype, 0, 0, 1, "none"),
              ShardFile(2, dtype, 1, NZ - 1, NZ - 1, "none")>>
      [] scenario = "thin_last" ->
            <<ShardFile(1, dtype, 0, NZ - 2, NZ - 1, "none"),
              ShardFile(2, dtype, NZ - 1, NZ - 1, 1, "none")>>
      [] scenario = "short" ->
            <<ShardFile(1, dtype, 0, 5, 3, "none"),
              ShardFile(2, dtype, 6, NZ - 1, NZ - 6, "none")>>
      [] scenario = "renamed" ->
            <<ShardFile(1, dtype, 0, 3, 4, "none"),
              ShardFile(2, dtype, 4, 7, 4, "renamed"),
              ShardFile(3, dtype, 8, NZ - 1, NZ - 8, "none")>>
      [] scenario = "origin" -> Halves(dtype, "origin")
      [] scenario = "type" -> Halves(dtype, "type")
      [] scenario = "unreadable" -> Halves(dtype, "unreadable")
      [] scenario = "double" ->
            <<ShardFile(1, dtype, 0, 5, 6, "double"),
              ShardFile(2, dtype, 6, NZ - 1, NZ - 6, "none")>>
      [] scenario = "beyond" ->
            <<ShardFile(1, dtype, 0, 5, 6, "none"),
              ShardFile(2, dtype, 6, NZ, NZ - 5, "none")>>
      [] scenario = "stray" ->
            <<ShardFile(3, dtype, 0, 0, 0, "stray"),
              ShardFile(1, dtype, 0, 5, 6, "none"),
              ShardFile(2, dtype, 6, NZ - 1, NZ - 6, "none")>>
      [] scenario = "only_stray" -> <<ShardFile(1, dtype, 0, 0, 0, "stray")>>
      [] scenario = "packed" ->
            <<ShardFile(1, dtype, 0, 5, 6, "none"),
              ShardFile(2, dtype, 6, NZ - 1, NZ - 6, "packed")>>
      [] scenario = "empty" -> <<>>

Scenarios ==
    {"halves", "unordered", "thin_first", "thin_last", "short", "renamed",
     "origin", "type", "unreadable", "double", "beyond", "stray", "only_stray",
     "packed", "empty"}

\* the accesses to `slices` of one Slicer
MaxAccesses == 2

\* the sizes update_slices asks for (update_plexus.py line 260), and the
\* default
Thumbs == <<None, <<80, 80>>, <<120, 120>>>>
Full == <<None>>

\* the names of all the slices at one size
AtSize(sz) == {<<a, sz>> : a \in {"x", "y", "z"}}

\* the Slicer arguments tried: the outputs (axis and size) whose names are in
\* `existing`, replace, dry_run, sizes
Arguments ==
    {<<{}, FALSE, FALSE, Full>>,
     <<{<<"x", None>>}, FALSE, FALSE, Full>>,
     <<{<<"x", None>>}, TRUE, FALSE, Full>>,
     <<AtSize(None), FALSE, FALSE, Full>>,
     <<{}, FALSE, TRUE, Full>>,
     <<{}, FALSE, FALSE, Thumbs>>,
     <<{<<"x", None>>}, TRUE, FALSE, Thumbs>>,
     <<{<<"y", <<80, 80>>>>}, FALSE, FALSE, Thumbs>>,
     <<AtSize(None), FALSE, FALSE, Thumbs>>,
     <<AtSize(None) \cup AtSize(<<80, 80>>) \cup AtSize(<<120, 120>>),
       FALSE, FALSE, Thumbs>>}

Datasets ==
    {[dtype |-> t, kind |-> k, scenario |-> sc, arguments |-> <<{}, FALSE, FALSE, Full>>] :
        t \in DTypes, k \in {"tomo", "segmented"}, sc \in Scenarios}
    \cup
    {[dtype |-> t, kind |-> "tomo", scenario |-> "halves", arguments |-> a] :
        t \in {"uint8", "float32"}, a \in Arguments}

\* the path's last component: tomoA.nc, tomoA_nc/, segmentedA.nc, ...
PathOf(d, path) ==
    (IF d.kind = "tomo" THEN <<"t", "o", "m", "o">>
     ELSE <<"s", "e", "g", "m", "e", "n", "t", "e", "d">>)
    \o (IF path = "file" THEN <<"A", ".", "n", "c">>
        ELSE <<"A", "_", "n", "c", "/">>)

\* what is at the path
FilesAt(d, path) ==
    IF path = "file" THEN <<WholeFile(d.dtype)>> ELSE Listing(d.scenario, d.dtype)

\* the names of the volume's outputs along the axes at the sizes
NamesOf(d, which) ==
    {sizeprefix(w[2]) \o
     SliceName(w[1], CASE w[1] = "x" -> (NX - 1) \div 2 + Origin[1]
                       [] w[1] = "y" -> (NY - 1) \div 2 + Origin[2]
                       [] w[1] = "z" -> (NZ - 1) \div 2 + Origin[3],
               IF d.kind = "tomo" THEN <<"t", "o", "m", "A">>
               ELSE <<"s", "e", "g", "A">>) : w \in which}

\* what a finished run leaves
Finished(self) == self.pc \in {"done", "failed"}

Record(out, path, self) ==
    IF Finished(self) THEN [out EXCEPT ![path] = Some(self)] ELSE out

\* -- Slicer(path, existing, replace, dry_run)
SlicerNew(path) ==
    /\ outputs[path] = None
    /\ IF slicer = None THEN TRUE ELSE Finished(slicer[1])
    /\ slicer' = Some(Slicer(PathOf(dataset[1], path),
                             NamesOf(dataset[1], dataset[1].arguments[1]),
                             dataset[1].arguments[2], dataset[1].arguments[3],
                             dataset[1].arguments[4]))
    /\ UNCHANGED <<cacheVars, nc, otherVars, hist, float_cast, dataset, outputs, header_info>>

\* the path the Slicer was made for
PathNow ==
    CHOOSE path \in Paths : slicer[1].path = StripSlash(PathOf(dataset[1], path))

\* -- slicer.slices with _slices None: process() up to the loops
ProcessBegin ==
    /\ slicer # None
    /\ slicer[1].pc = "new"
    /\ \E s \in {process_begin(slicer[1], PathNow = "directory",
                               FilesAt(dataset[1], PathNow))} :
           /\ slicer' = Some(s)
           /\ outputs' = Record(outputs, PathNow, s)
    /\ UNCHANGED <<cacheVars, nc, otherVars, hist, float_cast, dataset, header_info>>

\* -- the loops go on to the next file
NextFile ==
    /\ slicer # None
    /\ slicer[1].pc = "streaming"
    /\ slicer[1].gen = None
    /\ slicer[1].k < Len(slicer[1].entries)
    /\ \E s \in {next_file(slicer[1])} :
           /\ slicer' = Some(s)
           /\ outputs' = Record(outputs, PathNow, s)
    /\ UNCHANGED <<cacheVars, nc, otherVars, hist, float_cast, dataset, header_info>>

\* -- z_slices yields an item and the loop body runs on it
NextItem ==
    /\ slicer # None
    /\ slicer[1].pc = "streaming"
    /\ slicer[1].gen # None
    /\ \E s \in {next_item(slicer[1], float_cast)} :
           /\ slicer' = Some(s)
           /\ outputs' = Record(outputs, PathNow, s)
    /\ UNCHANGED <<cacheVars, nc, otherVars, hist, float_cast, dataset, header_info>>

\* -- data_range returns
RangeEnd ==
    /\ slicer # None
    /\ slicer[1].pc = "streaming"
    /\ slicer[1].pass = "range"
    /\ slicer[1].gen = None
    /\ slicer[1].k = Len(slicer[1].entries)
    /\ slicer' = Some(range_end(slicer[1]))
    /\ UNCHANGED <<cacheVars, nc, otherVars, hist, float_cast, dataset, outputs, header_info>>

\* -- the files are through: histogram analysis and image encoding
ProcessEnd ==
    /\ slicer # None
    /\ slicer[1].pc = "streaming"
    /\ slicer[1].pass = "main"
    /\ slicer[1].gen = None
    /\ slicer[1].k = Len(slicer[1].entries)
    /\ \E s \in {process_end(slicer[1])} :
           /\ slicer' = Some(s)
           /\ outputs' = Record(outputs, PathNow, s)
    /\ UNCHANGED <<cacheVars, nc, otherVars, hist, float_cast, dataset, header_info>>

\* -- slicer.slices once more
SlicesAgain ==
    /\ slicer # None
    /\ Finished(slicer[1])
    /\ Len(slicer[1].got) + 1 < MaxAccesses
    /\ slicer' = Some(Slicer_slices(slicer[1]))
    /\ UNCHANGED <<cacheVars, nc, otherVars, hist, float_cast, dataset, outputs, header_info>>

\* -- NC3HeaderInfo(path)
HeaderInfo(path) ==
    /\ header_info[path] = None
    /\ slicer = None
    /\ header_info' = [header_info EXCEPT
           ![path] = Some(NC3HeaderInfo(path = "directory", FilesAt(dataset[1], path)))]
    /\ UNCHANGED <<cacheVars, nc, otherVars, hist, float_cast, dataset, slicer, outputs>>

InitSlicer ==
    /\ CacheIdle
    /\ OtherIdle
    /\ hist = None
    /\ dataset \in {Some(d) : d \in Datasets}
    /\ float_cast \in (IF dataset[1].dtype = "float32" THEN {"wrap", "saturate"}
                       ELSE {"wrap"})
    /\ slicer = None
    /\ outputs = [path \in Paths |-> None]
    /\ header_info = [path \in Paths |-> None]

NextSlicer ==
    \/ \E path \in Paths : HeaderInfo(path)
    \/ \E path \in Paths : SlicerNew(path)
    \/ ProcessBegin
    \/ NextFile
    \/ NextItem
    \/ RangeEnd
    \/ ProcessEnd
    \/ SlicesAgain

SpecSlicer == InitSlicer /\ [][NextSlicer]_vars


\* ------------------------------------------------- a history Parser in use
MaxLines == 3

\* the history texts: up to MaxLines lines
Texts ==
    UNION {[1..n -> HistoryLines] : n \in 0..MaxLines}

\* -- parse() reads a line, or finds the text at its end
ParseLine ==
    /\ hparser # None
    /\ hparser.pc = "parse"
    /\ Len(hparser.stack) = 1
    /\ hparser' = parse(hparser)
    /\ UNCHANGED <<cacheVars, nc, volumeVars, history, call, conn>>

\* -- the innermost parse_section() reads a line, or finds the text at its
\*    end
ParseSectionLine ==
    /\ hparser # None
    /\ hparser.pc = "parse"
    /\ Len(hparser.stack) > 1
    /\ hparser' = parse_section(hparser)
    /\ UNCHANGED <<cacheVars, nc, volumeVars, history, call, conn>>

\* -- Parser.__init__ after parse(): analyse_mango or analyse_other, whose
\*    candidates come in the order of a plain dictionary
Analyse ==
    /\ hparser # None
    /\ hparser.pc = "analyse"
    /\ IF format(hparser) = "mango"
       THEN \E last \in (IF Candidates(hparser.raw_data) = {} THEN {0}
                          ELSE Candidates(hparser.raw_data)) :
                hparser' = analyse_mango(hparser, last)
       ELSE hparser' = analyse_other(hparser)
    /\ UNCHANGED <<cacheVars, nc, volumeVars, history, call, conn>>

InitParser ==
    /\ CacheIdle
    /\ VolumeIdle
    /\ HistoryIdle
    /\ CallIdle
    /\ ConnIdle
    /\ hparser \in {HistoryParser(text) : text \in Texts}

NextParser ==
    \/ ParseLine
    \/ ParseSectionLine
    \/ Analyse

SpecParser == InitParser /\ [][NextParser]_vars

\* --------------------------------------------------------- a History in use
\* the paths of the datasets
DatasetNames ==
    {<<"t", "o", "m", "o", "A", ".", "n", "c">>, <<"t", "o", "m", "o", "A", "_", "n", "c", "/">>, <<"d", "/", "t", "o", "m", "o", "A", "_", "n", "c">>, <<"t", "o", "m", "o", "A", "_", "h", "e", "a", "d", "e", "r">>,
     <<"t", "o", "m", "o", "A", "?", "n", "c">>, <<"s", "e", "g", "B", "_", "h", "e", "a", "d", "e", "r", ".", "n", "c">>, <<"p", "r", "o", "j", "Z">>, <<"t", "o", "m", "o", "Z">>}

\* the processes extract_processes finds in the attributes
ProcessPool ==
    {Process(Some(1), Some(<<"t", "o", "m", "o", "A">>), <<"a">>, 1, 0, {}),
     Process(Some(2), Some(<<"s", "e", "g", "B">>), <<"b">>, 1, 0,
             {ById(<<"a">>), ByName(<<"t", "o", "m", "o", "A">>)}),
     Process(Some(3), Some(<<"t", "o", "m", "o", "C">>), <<"c">>, 1, 0, {ByName(<<"t", "o", "m", "o", "A">>)}),
     Process(None, None, <<"d">>, 2, 0, {}),
     Process(Some(2), Some(<<"t", "o", "m", "o", "A">>), <<"a">>, 2, 0, {ById(<<"c">>)}),
     Process(Some(3), Some(<<"s", "e", "g", "B">>), <<"e">>, 1, 1,
             {ByName(<<"s", "e", "g", "B">>), ByName(<<"x">>)})}

MaxProcesses == 3

\* the processes of a history, in the order of the attributes
ProcessLists ==
    {list \in UNION {[1..n -> ProcessPool] : n \in 0..MaxProcesses} :
        \A i, j \in DOMAIN list : i < j => list[i] # list[j]}

HistoryArguments == ProcessLists \X DatasetNames

\* -- History(source, name, creation_time)
HistoryNew(arguments) ==
    /\ history = None
    /\ history' = Some(History_init(arguments[1], arguments[2]))
    /\ UNCHANGED <<cacheVars, nc, volumeVars, hparser, call, conn>>

\* -- history.main_process(), as the uploader calls it
MainProcess ==
    /\ history # None
    /\ LET chosen == main_process(history[1])
       IN  history' = Some([chosen.self EXCEPT !.returned = Some(chosen.main)])
    /\ UNCHANGED <<cacheVars, nc, volumeVars, hparser, call, conn>>

InitHistory ==
    /\ CacheIdle
    /\ VolumeIdle
    /\ OtherIdle

NextHistory ==
    \/ \E arguments \in HistoryArguments : HistoryNew(arguments)
    \/ MainProcess

SpecHistory == InitHistory /\ [][NextHistory]_vars

\* ------------------------------------------------ default_slice_set in use
\* the extents of a volume, on both sides of Delta
Extents == {2, Delta, Delta + 1, 2 * Delta + 4}

Origins == {<<0, 0, 0>>, <<2, 0, 5>>, <<7, 100, 0>>}

\* the paths a Slicer is made for
SlicerPaths ==
    {<<"t", "o", "m", "o", "A", ".", "n", "c">>, <<"t", "o", "m", "o", "A", "_", "n", "c", "/">>, <<"d", "/", "s", "e", "g", "m", "e", "n", "t", "e", "d", "B", "_", "n", "c">>, <<"s", "e", "g", "C">>,
     <<"d", ".", "n", "c", "/", "x", "t", "o", "m", "o", ".", "n", "c">>, <<"t", "o", "m", "o">>, <<"A", ".", "n", "c", "/">>}

SliceSetArguments == SlicerPaths \X (Extents \X Extents \X Extents) \X Origins

\* -- Slicer(path), then the slice set process() makes for the variable found
SliceSet ==
    /\ call # None
    /\ call.op = "default_slice_set"
    /\ call.result = None
    /\ LET self == Slicer(call.path, {}, FALSE, FALSE, Full)
       IN  call' = [call EXCEPT
                      !.result = Some(default_slice_set(call.var, Delta, self.basename))]
    /\ UNCHANGED <<cacheVars, nc, volumeVars, hparser, history, conn>>

InitSliceSet ==
    /\ CacheIdle
    /\ VolumeIdle
    /\ ParserIdle
    /\ HistoryIdle
    /\ ConnIdle
    /\ call \in {[op |-> "default_slice_set", path |-> arguments[1],
                  var |-> [err |-> NoError, name |-> "tomo",
                           size |-> arguments[2], origin |-> arguments[3],
                           dtype |-> "uint8"],
                  result |-> None] : arguments \in SliceSetArguments}

NextSliceSet == SliceSet

SpecSliceSet == InitSliceSet /\ [][NextSliceSet]_vars

\* ------------------------------------------------------- image_data in use
\* the element types of an array: those of a volume, and two others
ArrayTypes == {"uint8", "uint16", "int32", "float32", "int16", "float64"}

\* the upper ends of the data range: None, or a value up to U16Max
UpperEnds == {None} \cup {Some(hi) : hi \in 0..U16Max}

ImageArguments == {"x", "y", "z"} \X ArrayTypes \X UpperEnds

\* -- image_data(slice, lo, hi, mask_val, info, thumb_size)
ImageData ==
    /\ call # None
    /\ call.op = "image_data"
    /\ call.result = None
    /\ call' = [call EXCEPT
                  !.result = Some(image_data(Slice(<<2, 2, 2>>, call.axis, 0),
                                             call.dtype, Some(0), call.hi))]
    /\ UNCHANGED <<cacheVars, nc, volumeVars, hparser, history, conn>>

InitImage ==
    /\ CacheIdle
    /\ VolumeIdle
    /\ ParserIdle
    /\ HistoryIdle
    /\ ConnIdle
    /\ call \in {[op |-> "image_data", axis |-> arguments[1],
                  dtype |-> arguments[2], hi |-> arguments[3],
                  result |-> None] : arguments \in ImageArguments}

NextImage == ImageData

SpecImage == InitImage /\ [][NextImage]_vars

\* ---------------------------------------------------- find_variable in use
\* the variables a header can hold at most
MaxVariables == 2

\* the dimension lists of a variable: (z, y, x) with z = 2, with z = 1,
\* (y, x), and (t, z, y, x)
Shapes ==
    {<<[name |-> "z", value |-> 2], [name |-> "y", value |-> 3],
       [name |-> "x", value |-> 4]>>,
     <<[name |-> "z", value |-> 1], [name |-> "y", value |-> 3],
       [name |-> "x", value |-> 4]>>,
     <<[name |-> "y", value |-> 3], [name |-> "x", value |-> 4]>>,
     <<[name |-> "t", value |-> 2], [name |-> "z", value |-> 2],
       [name |-> "y", value |-> 3], [name |-> "x", value |-> 4]>>}

\* the i-th variable of a header, of a shape and an element type
VariableNames == <<"first", "second", "third">>
HeaderVariable(i, shape, type) ==
    [name |-> VariableNames[i], dimensions |-> shape, attributes |-> <<>>,
     nc_type |-> type, data_size |-> 0, data_start |-> 0]

VariableLists ==
    UNION {{[i \in 1..n |-> HeaderVariable(i, choice[i][1], choice[i][2])] :
                choice \in [1..n -> Shapes \X NC_TYPE_codes]} :
           n \in 0..MaxVariables}

\* -- find_variable(path) on a file with the header given
FindVariable ==
    /\ call # None
    /\ call.op = "find_variable"
    /\ call.result = None
    /\ call' = [call EXCEPT !.result = Some(find_variable(call.file))]
    /\ UNCHANGED <<cacheVars, nc, volumeVars, hparser, history, conn>>

InitFind ==
    /\ CacheIdle
    /\ VolumeIdle
    /\ ParserIdle
    /\ HistoryIdle
    /\ ConnIdle
    /\ call \in {[op |-> "find_variable",
                  file |-> [attributes |-> <<>>, variables |-> variables],
                  result |-> None] : variables \in VariableLists}

NextFind == FindVariable

SpecFind == InitFind /\ [][NextFind]_vars

\* ------------------------------------------------------ a Connection in use
MaxRetries == 3
MaxWait == 2

\* what an attempt can end with: a response's status, or an exception
Statuses == {200, 500}
Exceptions == {"error", "HTTPException", KeyboardInterrupt}

\* -- connection.post_form(selector, fields, files) is called
PostForm ==
    /\ conn # None
    /\ conn[1].pc = "idle"
    /\ conn' = Some(post_form(conn[1]))
    /\ UNCHANGED <<cacheVars, nc, volumeVars, hparser, history, call>>

\* -- an attempt ends with a response
AttemptCompletes(res) ==
    /\ conn # None
    /\ conn[1].pc = "attempt"
    /\ conn' = Some(Completes(conn[1], res))
    /\ UNCHANGED <<cacheVars, nc, volumeVars, hparser, history, call>>

\* -- an attempt ends with an exception
AttemptFails(ex) ==
    /\ conn # None
    /\ conn[1].pc = "attempt"
    /\ conn' = Some(Fails(conn[1], ex))
    /\ UNCHANGED <<cacheVars, nc, volumeVars, hparser, history, call>>

\* -- the sleep before the next attempt ends
SleepEnds(interrupted) ==
    /\ conn # None
    /\ conn[1].pc = "sleep"
    /\ conn' = Some(Slept(conn[1], interrupted))
    /\ UNCHANGED <<cacheVars, nc, volumeVars, hparser, history, call>>

InitConn ==
    /\ CacheIdle
    /\ VolumeIdle
    /\ ParserIdle
    /\ HistoryIdle
    /\ CallIdle
    /\ conn \in {Some(Connection(retry_limit, retry_wait)) :
                    retry_limit \in 1..MaxRetries, retry_wait \in 1..MaxWait}

NextConn ==
    \/ PostForm
    \/ \E res \in Statuses : AttemptCompletes(res)
    \/ \E ex \in Exceptions : AttemptFails(ex)
    \/ \E interrupted \in BOOLEAN : SleepEnds(interrupted)

SpecConn == InitConn /\ [][NextConn]_vars

\* ------------------------------------------------------------------ claims

\* C1: for every file whose header NC3File parses, from the cache or from
\* disk, the recorded fingerprint is the MD5 of the first header_size bytes
\* of the file (the file as it was when it was opened).
C1_FingerprintOfFile ==
    nc.pc = "parsed" =>
        nc.fingerprint = hexdigest(Prefix(File(opened).data, nc.header_size))

\* C2: every read whose target offset exceeds cache_limit is rejected with
\* "Cache limit exceeded", however many bytes the buffer already holds.
C2_LimitAlwaysEnforced ==
    lastOp.op = "read" /\ lastOp.target > CacheLimit => lastOp.err = LimitError

\* C3: cached bytes are used only if the entry's mtime and size equal the
\* file's stat at open, and the bytes a read returns are the bytes the file
\* had at open time.
C3_ReadsMatchOpenTime ==
    /\ lastOp.op = "open" /\ inst[1].buffer # <<>> =>
           /\ store # <<>>
           /\ store[1].mtime = File(opened).mtime
           /\ store[1].size = Len(File(opened).data)
    /\ lastOp.op = "read" /\ lastOp.err = NoError =>
           lastOp.data = PySlice(File(opened).data, lastOp.start, lastOp.target)

\* C4: with the cache enabled, close() stores the file's bytes from offset 0
\* up to the highest offset a read on the instance reached, whatever seeks
\* were made before the close.
C4_CloseStoresHighestRead ==
    lastOp.op = "close" /\ CacheEnabled(cache_location, force_cache, cacheExists) =>
        /\ store # <<>>
        /\ store[1].buffer = Prefix(File(opened).data, hiRead)

\* C5 (as claimed): once the file's mtime or size differs from the stat
\* taken at open, every read fails with "File changed on disk", also a read
\* the buffer already covers.
C5_EveryReadAfterChangeFails ==
    lastOp.op = "read" /\ lastOp.changed =>
        lastOp.err = ChangedError /\ lastOp.data = <<>>

\* C5 (amended): a read that has to fetch from disk (its target offset is
\* beyond the buffered bytes and within cache_limit) while the file's mtime
\* or size differs from the stat taken at open fails with "File changed on
\* disk" and returns no bytes.
C5_FetchAfterChangeFails ==
    lastOp.op = "read" /\ lastOp.changed /\ lastOp.have < lastOp.target
                       /\ lastOp.target <= CacheLimit =>
        lastOp.err = ChangedError /\ lastOp.data = <<>>

\* a fetching read after a change, made by an instance that had read before
C5_Witness ==
    /\ lastOp.op = "read" /\ lastOp.changed
    /\ 0 < lastOp.have /\ lastOp.have < lastOp.target
    /\ lastOp.target <= CacheLimit
    /\ lastOp.err = ChangedError

\* the percentages asked for, in tenths of a percent
Percents == {0, 1, 250, 500, 999, 1000}

\* C9: after any sequence of Histogram.update calls, none included,
\* sum(counts) + masked = total.
C9_Conservation ==
    hist # None => Sum(hist[1].counts) + hist[1].masked = hist[1].total

\* a histogram that has counted masked and unmasked entries in two updates
C9_Witness ==
    /\ hist # None
    /\ hist[1].masked > 0
    /\ hist[1].total > 2 * hist[1].masked + 2
    /\ Len(hist[1].counts) > 2

\* C10: in every histogram state and for all p <= q in [0, 100],
\* bottom_percentile(p) <= bottom_percentile(q) and
\* top_percentile(p) >= top_percentile(q).
C10_PercentileMonotone ==
    hist # None =>
        \A p, q \in Percents :
            p <= q =>
                /\ PyLessEq(bottom_percentile(hist[1], p), bottom_percentile(hist[1], q))
                /\ PyLessEq(top_percentile(hist[1], q), top_percentile(hist[1], p))

\* a histogram over three bins or more where the percentiles differ
C10_Witness ==
    /\ hist # None
    /\ Len(hist[1].counts) > 2
    /\ bottom_percentile(hist[1], 1) # None
    /\ bottom_percentile(hist[1], 1)[1] < bottom_percentile(hist[1], 999)[1]
    /\ top_percentile(hist[1], 999)[1] < top_percentile(hist[1], 1)[1]

\* the variables of a file that carry the name
Named(file, name) ==
    {i \in DOMAIN file.variables : file.variables[i].name = name}

\* the file's header yields a descriptor equal to V in name, size, origin
\* and dtype
SameDescriptor(file, V) ==
    /\ file.ok
    /\ Named(file, V.name) # {}
    /\ LET d == VolumeVariable(file, file.variables[SetMin(Named(file, V.name))])
       IN  /\ d.err = NoError
           /\ d.name = V.name
           /\ d.size = V.size
           /\ d.origin = V.origin
           /\ d.dtype = V.dtype

\* the stream over the files has not failed
StreamGoesOn ==
    /\ slicer # None
    /\ slicer[1].var # None
    /\ slicer[1].pc = "streaming" \/ (slicer[1].pc = "failed" /\ slicer[1].hi # None)

\* C6 (as claimed): while a volume is streamed, every shard gone through
\* yields a descriptor equal to V, or the stream has failed; no shard is
\* skipped silently.
C6_EveryShardEqualOrFails ==
    StreamGoesOn =>
        \A i \in 1..slicer[1].k : SameDescriptor(slicer[1].entries[i], slicer[1].var[1])

\* C6 (amended): while a volume is streamed, every shard gone through that
\* holds a variable named as V yields a descriptor equal to V, or the stream
\* has failed; a shard without such a variable is passed over and yields
\* nothing; every item yielded comes from a shard with a descriptor equal to V.
C6_NamedShardEqualOrFails ==
    /\ StreamGoesOn =>
           \A i \in 1..slicer[1].k :
               \/ slicer[1].entries[i].ok
                      /\ Named(slicer[1].entries[i], slicer[1].var[1].name) = {}
               \/ SameDescriptor(slicer[1].entries[i], slicer[1].var[1])
    /\ slicer # None =>
           \A j \in DOMAIN slicer[1].log :
               SameDescriptor(slicer[1].entries[slicer[1].log[j].shard],
                              slicer[1].var[1])

\* a shard without the variable was passed over and the next one is streamed
C6_Witness ==
    /\ StreamGoesOn
    /\ slicer[1].k = 3
    /\ Named(slicer[1].entries[2], slicer[1].var[1].name) = {}
    /\ \E j \in DOMAIN slicer[1].log : slicer[1].log[j].shard = 3
    /\ \E j \in DOMAIN slicer[1].log : slicer[1].log[j].shard = 1

\* the first z of a shard's range: zdim_range[0], or 0 without the attribute
RangeStart(file, V) ==
    LET var == file.variables[SetMin(Named(file, V.name))]
        at == {i \in DOMAIN var.attributes : var.attributes[i].name = "zdim_range"}
    IN  IF at = {} THEN 0 ELSE var.attributes[SetMin(at)].value[1]

\* the items yielded so far: within a shard z goes up by one from the start
\* of the shard's range and only the last item may be a marker; the shards
\* come in the order of the sorted list
ItemsInOrder ==
    slicer # None =>
        /\ \A i, j \in DOMAIN slicer[1].entries :
               i < j => slicer[1].entries[i].path < slicer[1].entries[j].path
        /\ \A j \in DOMAIN slicer[1].log :
               LET log == slicer[1].log
               IN  IF j > 1 /\ log[j - 1].pass = log[j].pass
                            /\ log[j - 1].shard = log[j].shard
                   THEN log[j].z = log[j - 1].z + 1 /\ log[j - 1].plane
                   ELSE /\ log[j].z = RangeStart(slicer[1].entries[log[j].shard],
                                                 slicer[1].var[1])
                        /\ j > 1 /\ log[j - 1].pass = log[j].pass =>
                               log[j - 1].shard < log[j].shard

\* a step that yields a marker leaves histogram and slices as they were and
\* the loop over the files goes on; the files are taken one after the other
MarkerStep ==
    slicer # None /\ slicer' # None /\ slicer'[1].path = slicer[1].path =>
        /\ slicer'[1].k \in {slicer[1].k, slicer[1].k + 1, 0}
        /\ (/\ Len(slicer'[1].log) = Len(slicer[1].log) + 1
            /\ ~slicer'[1].log[Len(slicer'[1].log)].plane) =>
                /\ slicer'[1].hist = slicer[1].hist
                /\ slicer'[1].slices = slicer[1].slices
                /\ slicer'[1].pc = "streaming"
                /\ slicer'[1].gen = None
                /\ slicer'[1].k = slicer[1].k

Concatenates(d) ==
    LET files == Listing(d.scenario, d.dtype)
        V == VolumeVariable(WholeFile(d.dtype), WholeFile(d.dtype).variables[1])
        lo(i) == RangeStart(files[i], V)
        hi(i) == lo(i) + files[i].stored - 1
    IN  /\ files # <<>>
        /\ \A i \in DOMAIN files :
               /\ SameDescriptor(files[i], V)
               /\ files[i].first = lo(i)
               /\ get_attribute(files[i], files[i].variables[2], "zdim_range")
                      = Some(<<lo(i), hi(i)>>)
        /\ \A z \in 0..(NZ - 1) :
               Cardinality({i \in DOMAIN files : lo(i) <= z /\ z <= hi(i)}) = 1
        /\ \A i \in DOMAIN files : 0 <= lo(i) /\ hi(i) < NZ

\* C8: for a directory of shards that concatenate to the single file's
\* volume, the slice buffers and (lo, hi) after streaming are those
\* obtained from the single file.
C8_ShardIndependence ==
    (/\ dataset # None
     /\ outputs["file"] # None
     /\ outputs["directory"] # None
     /\ Concatenates(dataset[1])) =>
        /\ outputs["directory"][1].slices = outputs["file"][1].slices
        /\ outputs["directory"][1].lo = outputs["file"][1].lo
        /\ outputs["directory"][1].hi = outputs["file"][1].hi
        /\ outputs["directory"][1].unit = outputs["file"][1].unit

\* the action the caller's existing set and replace flag give a name
Resolved(self, name) ==
    IF name \in self.existing THEN (IF self.replace THEN "REPLACE" ELSE "SKIP")
    ELSE "ADD"

\* the names of all the outputs of the run: every slice of the volume at
\* every size asked for
AllOutputNames(self) ==
    LET all == default_slice_set(self.var[1], 10, self.basename)
    IN  {sizeprefix(self.sizes[j]) \o all[i].n :
            i \in DOMAIN all, j \in DOMAIN self.sizes}

\* C11: the action attached to each output name N, full-size or thumbnail,
\* is the one N's own membership in existing gives: REPLACE if N is in
\* existing and replace is set, ADD if N is not in existing; a name in
\* existing with replace unset is SKIP and is given no output; if every
\* output is SKIP nothing is streamed or emitted.
C11_ActionByOwnName ==
    (slicer # None /\ slicer[1].pc # "new" /\ slicer[1].var # None) =>
        /\ \A i \in DOMAIN output_names(slicer[1].slices, slicer[1].sizes) :
               LET o == output_names(slicer[1].slices, slicer[1].sizes)[i]
               IN  o.action = Resolved(slicer[1], o.name) /\ o.action # "SKIP"
        /\ (\A n \in AllOutputNames(slicer[1]) : Resolved(slicer[1], n) = "SKIP") =>
               /\ slicer[1].log = <<>>
               /\ slicer[1].k = 0
               /\ slicer[1]._slices = Some(<<>>)

\* the basename matches .*[._]nc(\.bz2)?$
MatchesPattern(base) ==
    \E stem \in {base, SubSeq(base, 1, Len(base) - 4)} :
        /\ stem = base \/ (Len(base) >= 4 /\ SubSeq(base, Len(base) - 3, Len(base))
                                                = <<".", "b", "z", "2">>)
        /\ Len(stem) >= 3
        /\ stem[Len(stem) - 2] \in {".", "_"}
        /\ stem[Len(stem) - 1] = "n"
        /\ stem[Len(stem)] = "c"

\* the files under the directory whose basename matches, in the order of
\* their paths
MatchingFiles(d) ==
    SortSeq(SelectSeq(Listing(d.scenario, d.dtype), LAMBDA f : MatchesPattern(f.base)),
            LAMBDA a, b : a.path < b.path)

\* C12: for a directory, the files opened as shards, for header extraction
\* and for slice streaming, are the sorted list of the files under it whose
\* basename matches .*[._]nc(\.bz2)?$; other files are never parsed, and an
\* empty list fails the dataset with 'no NetCDF files found'.
C12_ShardsAreMatchingFiles ==
    /\ (dataset # None /\ header_info["directory"] # None) =>
           /\ header_info["directory"][1].entries = MatchingFiles(dataset[1])
           /\ MatchingFiles(dataset[1]) = <<>> =>
                  header_info["directory"][1].err = NoFiles
    /\ (slicer # None /\ slicer[1].pc # "new" /\ PathNow = "directory") =>
           /\ slicer[1].entries = MatchingFiles(dataset[1])
           /\ MatchingFiles(dataset[1]) = <<>> =>
                  slicer[1].pc = "failed" /\ slicer[1].err = NoFiles

\* C13: for any input text, unbalanced or unnamed BeginSection and
\* EndSection lines included, constructing the Parser ends without raising,
\* with errors a list; parse problems are only ever recorded in errors.
C13_ParserNeverRaises ==
    hparser # None => hparser.pc # "raised"

\* the name the selection goes by: the basename of the dataset's name without
\* a trailing '/', without a trailing [._]nc and without a trailing _header
DatasetBasename(name) == StripHeader(StripNc(os_path_basename(StripSlash(name))))

\* some other process has an input that designates the process at i
Referenced(self, i) ==
    \E j \in DOMAIN self.processes \ {i} :
        \E e \in self.processes[j].inputs : find_process(self, e).found = i

\* the first of the processes at S in descending Process order, 0 for none
Greatest(self, S) ==
    IF S = {} THEN 0
    ELSE CHOOSE i \in S :
            \A j \in S : Process_cmp(self.processes[j], self.processes[i]) <= 0

Selected(self) ==
    LET name == DatasetBasename(self.name)
        named == {i \in DOMAIN self.processes : self.processes[i].name = Some(name)}
        free == {i \in DOMAIN self.processes : ~Referenced(self, i)}
        typed == {i \in free :
                    result_type(self.processes[i]) = type_for_name(Some(name))}
    IN  IF named # {} THEN SetMin(named)
        ELSE IF typed # {} THEN Greatest(self, typed)
        ELSE Greatest(self, free)

\* C14: main_process selects the process named like the dataset (basename,
\* without a trailing '/', [._]nc or _header) if there is one; otherwise the
\* first, in descending Process order, of the processes no other process
\* has as an input whose result_type is the type of the dataset's name
\* prefix, or failing that the first of those unreferenced processes
C14_MainProcessSelection ==
    history # None =>
        /\ history[1].main = Selected(history[1])
        /\ history[1].returned # None =>
               history[1].returned[1] = Selected(history[1])

\* the slices of a set that are on the axis
OnAxis(slices, axis) == {i \in DOMAIN slices : slices[i].s.axis = axis}

\* the extent of the volume along the axis
Extent(size, axis) ==
    CASE axis = "x" -> size[1] [] axis = "y" -> size[2] [] axis = "z" -> size[3]

DerivedBase(path) ==
    LET name == StripNc(os_path_basename(StripSlash(path)))
    IN  IF StartsWith(name, <<"t", "o", "m", "o">>)
        THEN <<"t", "o", "m">> \o SubSeq(name, 5, Len(name))
        ELSE IF StartsWith(name, <<"s", "e", "g", "m", "e", "n", "t", "e", "d">>)
        THEN <<"s", "e", "g">> \o SubSeq(name, 10, Len(name))
        ELSE name

AxisLetter(axis) == CASE axis = "x" -> "X" [] axis = "y" -> "Y" [] axis = "z" -> "Z"

OriginAlong(origin, axis) ==
    CASE axis = "x" -> origin[1] [] axis = "y" -> origin[2] [] axis = "z" -> origin[3]

\* C16: the name of every full-size slice is 'slice', the axis letter in upper
\* case, the decimal of the position plus the origin along the axis, '_',
\* the derived base of the dataset path, and '.png'
C16_NamingLaw ==
    (call # None /\ call.op = "default_slice_set" /\ call.result # None) =>
        \A i \in DOMAIN call.result[1] :
            LET slice == call.result[1][i]
            IN  slice.n = <<"s", "l", "i", "c", "e">> \o <<AxisLetter(slice.s.axis)>>
                          \o Decimal(slice.s.pos
                                     + OriginAlong(call.var.origin, slice.s.axis))
                          \o <<"_">> \o DerivedBase(call.path) \o <<".", "p", "n", "g">>

\* the slice on X of d/segmentedB_nc, 24 voxels wide with its origin at 2,
\* is named sliceX13_segB.png
C16_Witness ==
    /\ call # None /\ call.op = "default_slice_set" /\ call.result # None
    /\ call.path = <<"d", "/", "s", "e", "g", "m", "e", "n", "t", "e", "d", "B", "_", "n", "c">>
    /\ call.var.size[1] = 2 * Delta + 4
    /\ call.var.origin[1] = 2
    /\ \E i \in DOMAIN call.result[1] :
          call.result[1][i].n = <<"s", "l", "i", "c", "e", "X", "1", "3", "_", "s", "e", "g", "B", ".", "p", "n", "g">>

\* C17: the encoding mode image_data chooses is a function of the element
\* type and hi: black and white for uint8 with hi <= 1, fixed colours for
\* uint8 with hi > 1, grayscale for uint16 and float32, colours for int32;
\* any other element type is an error
C17_ModeTable ==
    (call # None /\ call.op = "image_data" /\ call.result # None) =>
        LET mode == call.result[1].img_mode
        IN  CASE call.dtype = "uint8" ->
                    call.hi # None =>
                        IF call.hi[1] <= 1 THEN mode = "black_and_white"
                        ELSE mode = "color_coded_fixed"
              [] call.dtype = "uint16" -> mode = "grayscale"
              [] call.dtype = "int32" -> mode = "color_coded"
              [] call.dtype = "float32" -> mode = "grayscale"
              [] OTHER -> call.result[1].err = UnexpectedType /\ mode = ""

\* a uint8 slice with hi = 1 has been given black and white
C17_Witness ==
    /\ call # None /\ call.op = "image_data" /\ call.result # None
    /\ call.dtype = "uint8" /\ call.hi = Some(1)
    /\ call.result[1].img_mode = "black_and_white"

\* the attempts of a trace, by their places in it
Attempts(trace) == {i \in DOMAIN trace : trace[i].what = "attempt"}

\* C18: post_form with a retry_limit of 1 or more makes at most retry_limit
\* attempts, waits retry_wait seconds between two consecutive attempts,
\* returns the response of the first attempt that completes, raises the last
\* exception again once the retry_limit-th attempt has failed, and lets a
\* KeyboardInterrupt through at once, with no attempt or wait after it
C18_RetryPolicy ==
    (conn # None /\ conn[1].retry_limit >= 1) =>
        LET self == conn[1]
            trace == self.trace
            n == Len(trace)
            failed == {i \in Attempts(trace) : trace[i].res = None}
        IN  /\ Cardinality(Attempts(trace)) <= self.retry_limit
            /\ \A i \in Attempts(trace) :
                  (\E j \in Attempts(trace) : j > i) =>
                      /\ trace[i + 1].what = "sleep"
                      /\ trace[i + 1].res = Some(self.retry_wait)
                      /\ i + 2 \in Attempts(trace)
            /\ \A i \in Attempts(trace) :
                  trace[i].res # None =>
                      /\ i = n
                      /\ self.pc = "returned"
                      /\ self.result = trace[i].res
            /\ self.pc = "returned" =>
                  n > 0 /\ n \in Attempts(trace) /\ trace[n].res # None
            /\ (Cardinality(failed) = self.retry_limit) =>
                  /\ self.pc = "raised"
                  /\ self.err = trace[n].ex
            /\ (self.pc = "raised" /\ self.err # KeyboardInterrupt) =>
                  Cardinality(failed) = self.retry_limit
            /\ \A i \in DOMAIN trace :
                  trace[i].ex = KeyboardInterrupt =>
                      /\ i = n
                      /\ self.pc = "raised"
                      /\ self.err = KeyboardInterrupt

\* post_form has given up after MaxRetries failed attempts with the two
\* waits between them
C18_Witness ==
    /\ conn # None
    /\ conn[1].retry_limit = MaxRetries
    /\ conn[1].pc = "raised"
    /\ conn[1].err = "HTTPException"
    /\ Cardinality(Attempts(conn[1].trace)) = MaxRetries
    /\ Len(conn[1].trace) = 2 * MaxRetries - 1

\* an entry that counts as masked in integer mode: the mask value, a
\* negative value or a value above that of 0xFFFF
MaskedEntry(h, v) == v = h.mask_value \/ v < 0 \/ v > U16Max

\* how many entries of the values in V the histogram has been given
SeenIn(h, V) ==
    LET n[S \in SUBSET (DOMAIN h.seen)] ==
            IF S = {} THEN 0
            ELSE LET v == CHOOSE v \in S : TRUE IN h.seen[v] + n[S \ {v}]
    IN  n[V \cap DOMAIN h.seen]

Unmasked(h) == {v \in DOMAIN h.seen : ~MaskedEntry(h, v)}

CountAt(h, v) == IF v + 1 \in DOMAIN h.counts THEN h.counts[v + 1] ELSE 0

\* C19: in integer mode every entry that equals mask_value, is negative or
\* is above 0xFFFF is counted in masked and in no bin, every other entry v
\* is counted once in counts[v], and so sum(counts) is the number of
\* non-masked entries seen, for uint8, uint16 and int32
C19_MaskedInNoBin ==
    (hist # None /\ hist[1].den = 1) =>
        LET h == hist[1]
        IN  /\ h.masked = SeenIn(h, DOMAIN h.seen \ Unmasked(h))
            /\ \A v \in 0..U16Max :
                  CountAt(h, v) = SeenIn(h, {v} \cap Unmasked(h))
            /\ Sum(h.counts) = SeenIn(h, Unmasked(h))

\* the bin of a non-masked entry: its value in integer mode, what line 102
\* makes of the quotient of line 101 with a range
BinOf(h, v) == IF h.den = 1 THEN v ELSE ToUint16(h, v, float_cast)

\* an entry that counts as masked: MaskedEntry in integer mode, the mask
\* value with a range
NonMasked(h) ==
    IF h.den = 1 THEN Unmasked(h) ELSE {v \in DOMAIN h.seen : v # h.mask_value}

Bins(h) == {BinOf(h, v) : v \in NonMasked(h)}

\* the number of non-masked entries seen with a bin <= i, and >= i
AtOrBelow(h, i) == SeenIn(h, {v \in NonMasked(h) : BinOf(h, v) <= i})
AtOrAbove(h, i) == SeenIn(h, {v \in NonMasked(h) : BinOf(h, v) >= i})

\* C20: for a non-empty histogram and p in (0, 100], bottom_percentile(p) is
\* the smallest bin i such that the non-masked entries with a bin <= i are
\* at least p percent of the non-masked entries counted, and
\* top_percentile(p) the largest bin i such that those with a bin >= i are
\* at least p percent of them
C20_PercentileDefinition ==
    (hist # None /\ NonMasked(hist[1]) # {}) =>
        LET h == hist[1]
            N == SeenIn(h, NonMasked(h))
            low(p) == SetMin({i \in Bins(h) : AtOrBelow(h, i) * 1000 >= p * N})
            high(p) == SetMax({i \in Bins(h) : AtOrAbove(h, i) * 1000 >= p * N})
        IN  \A p \in Percents \ {0} :
                /\ bottom_percentile(h, p) = Some(BinValue(h, low(p)))
                /\ top_percentile(h, p) = Some(BinValue(h, high(p)))

\* the z of the planes the slices of the Slicer have been updated with
Streamed(self) ==
    {self.log[j].z : j \in {j \in DOMAIN self.log :
                               self.log[j].pass = "main" /\ self.log[j].plane}}

\* C21: the X-slice holds vol[z][y][pos_x] in row z, the Y-slice
\* vol[z][pos_y][x], for every plane z streamed, and zeros in the rows of
\* the planes not streamed; the Z-slice holds vol[pos_z][y][x] once the
\* plane pos_z has been streamed and is changed by no other plane
C21_SliceContents ==
    slicer # None =>
        LET self == slicer[1]
            dtype == self.var[1].dtype
        IN  \A i \in DOMAIN self.slices :
                LET s == self.slices[i].s
                IN  CASE s.axis = "x" ->
                            \A z \in 0..(NZ - 1) :
                                s.content[z + 1] =
                                    [y \in 1..NY |->
                                        IF z \in Streamed(self)
                                        THEN Voxel(dtype, s.pos, y - 1, z) ELSE 0]
                      [] s.axis = "y" ->
                            \A z \in 0..(NZ - 1) :
                                s.content[z + 1] =
                                    [x \in 1..NX |->
                                        IF z \in Streamed(self)
                                        THEN Voxel(dtype, x - 1, s.pos, z) ELSE 0]
                      [] s.axis = "z" ->
                            s.content =
                                [y \in 1..NY |-> [x \in 1..NX |->
                                    IF s.pos \in Streamed(self)
                                    THEN Voxel(dtype, x - 1, y - 1, s.pos) ELSE 0]]

\* every plane of the volume has been streamed, from two files, into the
\* three slices
C21_Witness ==
    /\ slicer # None
    /\ Len(slicer[1].entries) = 2
    /\ Len(slicer[1].slices) = 3
    /\ Streamed(slicer[1]) = 0..(NZ - 1)
    /\ Cardinality({j \in DOMAIN slicer[1].log : slicer[1].log[j].pass = "main"}) = NZ
    /\ slicer[1].slices[3].s.content = Plane(slicer[1].var[1].dtype, (NZ - 1) \div 2)
    /\ \E y \in 1..NY : slicer[1].slices[3].s.content[y][1] # 0

\* ---- the list headers of the decoder
CountFields == {"dim_count", "att_count", "var_count"}
EntryEnds == {"dim_value", "att_values", "var_start"}

\* the tag a list is expected under, by the field of its count or last entry
Expected(at) ==
    CASE at = "dim_count" -> NC_DIMENSION
      [] at = "att_count" -> NC_ATTRIBUTE
      [] at = "var_count" -> NC_VARIABLE

\* the entries of the list being read, and the entries still to be read
Entries(p, at) ==
    CASE at \in {"dim_count", "dim_value"} -> p.dimensions
      [] at \in {"att_count", "att_values"} -> p.acc
      [] at \in {"var_count", "var_start"} -> p.variables
ToGo(p, at) ==
    IF at \in {"var_count", "var_start"} THEN p.vleft ELSE p.left

\* where the decoder goes when a list is complete
After(at) ==
    CASE at \in {"dim_count", "dim_value"} -> {"att_tag"}
      [] at \in {"att_count", "att_values"} -> {"var_tag", "var_type"}
      [] at \in {"var_count", "var_start"} -> {"done"}

\* the four bytes at the reader's offset, when the file has them
HasWord == inst # <<>> /\ inst[1].offset + 4 <= Len(File(opened).data)
WordAhead ==
    SignedBE(PySlice(File(opened).data, inst[1].offset, inst[1].offset + 4))

\* C22: a list read under tag T with the count n holds exactly n entries
\* (the count is what is left to read of an empty list, every entry read
\* adds one and takes one off, and the list is left when nothing is left
\* to read); tag 0 with count 0 is the empty list; every other pair of tag
\* and count ends the parse with an NC3Error and without a header
C22_ListHeaders ==
    [][(nc.pc = "parsing" /\ nc' # nc) =>
        LET p  == nc.parser
            at == p.at
            q  == nc'.parser
        IN  /\ (at \in CountFields /\ HasWord) =>
                   IF WordAhead >= 0
                        /\ (p.tag = Expected(at) \/ (p.tag = 0 /\ WordAhead = 0))
                   THEN /\ nc'.pc # "failed"
                        /\ Entries(q, at) = <<>>
                        /\ ToGo(q, at) = WordAhead
                   ELSE /\ nc'.pc = "failed"
                        /\ nc'.err \in NC3Errors
                        /\ nc'.header_size = 0
                        /\ Header(q) = Header(ParserStart)
            /\ (at \in EntryEnds /\ nc'.pc # "failed") =>
                   /\ Len(Entries(q, at)) = Len(Entries(p, at)) + 1
                   /\ ToGo(q, at) = ToGo(p, at) - 1
            /\ (at \in CountFields \cup EntryEnds /\ nc'.pc # "failed") =>
                   (ToGo(q, at) = 0 <=> q.at \in After(at))
            /\ (at \notin CountFields \cup EntryEnds /\ nc'.pc # "failed") =>
                   /\ q.dimensions = p.dimensions
                   /\ q.variables = p.variables
                   /\ q.acc = p.acc
                   /\ q.left = p.left
                   /\ q.vleft = p.vleft
    ]_vars

\* a header has been decoded with two dimensions under tag 10, an absent
\* attribute list, and one variable under tag 11 whose attribute list is
\* absent
C22_Witness ==
    /\ nc.pc = "parsed"
    /\ opened = "full"
    /\ Len(nc.parser.dimensions) = 2
    /\ nc.parser.attributes = <<>>
    /\ Len(nc.parser.variables) = 1
    /\ nc.parser.variables[1].attributes = <<>>

\* ---- the padding of the fields
\* the bytes of the payload the decoder asks for next
PayloadSize(p) == NC_TYPE_size(Request(p)[1]) * Request(p)[2]

\* C23: a field read moves the reader over the n bytes of its payload and
\* over exactly (4 - n mod 4) mod 4 bytes of padding, and leaves the
\* reader's offset a multiple of 4
C23_Padding ==
    [][(nc.pc = "parsing" /\ nc'.pc = "parsing" /\ nc' # nc) =>
        LET n == PayloadSize(nc.parser)
        IN  /\ inst'[1].offset = inst[1].offset + n + ((4 - (n % 4)) % 4)
            /\ inst'[1].offset % 4 = 0
    ]_vars

\* the text "abc" of three characters has been read and its one byte of
\* padding skipped: the reader is at 44
C23_Witness ==
    /\ nc.pc = "parsing"
    /\ opened = "typed"
    /\ nc.parser.at = "att_name_size"
    /\ Len(nc.parser.acc) = 1
    /\ nc.parser.acc[1].value = <<97, 98, 99>>
    /\ inst[1].offset = 44

\* C28: whatever the bytes of the file, NC3File either decodes a header or
\* fails with an NC3Error: an element type outside 1..6 and a dimension
\* index outside the dimension list are NC3Errors too
C28_OnlyFormatErrors ==
    nc.pc = "failed" => nc.err \in NC3Errors

\* ---- the choice of the volume variable
\* the variables of a header that have three dimensions, more than one
\* plane, and the type BYTE, SHORT, LONG or FLOAT
Fitting(file) ==
    {i \in DOMAIN file.variables :
        /\ Len(file.variables[i].dimensions) = 3
        /\ file.variables[i].dimensions[1].value > 1
        /\ file.variables[i].nc_type \in {NC_BYTE, NC_SHORT, NC_LONG, NC_FLOAT}}

\* C24: find_variable returns the descriptor of the first variable, in the
\* order of the header, with exactly three dimensions, a first dimension
\* above 1 and the type BYTE, SHORT, LONG or FLOAT, and None exactly when
\* the header has no such variable
C24_FirstFitting ==
    (call # None /\ call.op = "find_variable" /\ call.result # None) =>
        LET file == call.file
            var  == call.result[1]
        IN  /\ var = None <=> Fitting(file) = {}
            /\ var # None =>
                   \E i \in Fitting(file) :
                       /\ \A j \in Fitting(file) : i <= j
                       /\ var[1].err = NoError
                       /\ var[1].name = file.variables[i].name
                       /\ var[1].size = <<4, 3, 2>>
                       /\ var[1].dtype =
                              CASE file.variables[i].nc_type = NC_BYTE -> "uint8"
                                [] file.variables[i].nc_type = NC_SHORT -> "uint16"
                                [] file.variables[i].nc_type = NC_LONG -> "int32"
                                [] file.variables[i].nc_type = NC_FLOAT -> "float32"

\* the second variable was chosen: the first is a DOUBLE volume, the second
\* a FLOAT volume
C24_Witness ==
    /\ call # None /\ call.op = "find_variable" /\ call.result # None
    /\ Len(call.file.variables) = 2
    /\ call.file.variables[1].nc_type = NC_DOUBLE
    /\ Len(call.file.variables[1].dimensions) = 3
    /\ call.file.variables[1].dimensions[1].value = 2
    /\ call.result[1] # None
    /\ call.result[1][1].name = "second"
    /\ call.result[1][1].dtype = "float32"

\* ---- the inputs of the processes of a history
\* the process as extract_processes made it, with the inputs collect_inputs
\* gathered
Collected(p) ==
    CHOOSE o \in ProcessPool :
        o.time = p.time /\ o.identifier = p.identifier /\ o.text = p.text

\* the process a name designates: the first of that name in the order of
\* the history, 0 for none
Designated(self, name) ==
    LET same == {j \in DOMAIN self.processes :
                    Collected(self.processes[j]).name = Some(name)}
    IN  IF same = {} THEN 0 ELSE SetMin(same)

\* the entries of a process by their kind
Identifiers(p) == {e.val : e \in {e \in Collected(p).inputs : e.key = "identifier"}}
Names(p) == {e.val : e \in {e \in Collected(p).inputs : e.key = "name"}}

SectionLines(text) ==
    {i \in DOMAIN text :
        text[i].fields # <<>> /\ text[i].fields[1] = "BeginSection"}

\* C26: once a text with a line whose first token is BeginSection, indented
\* or not and at any depth, has been read to its end, the format of the
\* parser is 'mango' or 'mixed', never 'acquisition'
C26_SectionMeansMango ==
    (hparser # None /\ hparser.pc \notin {"parse", "raised"}
        /\ SectionLines(hparser.lines) # {}) =>
            format(hparser) \in {"mango", "mixed"}

\* ---- the accesses to the slices of a Slicer
\* what the first access came to: the tuple process() left, or the
\* exception that left process()
FirstOutcome(self) ==
    [err |-> self.err,
     value |-> IF self.err = NoError THEN self._slices[1] ELSE <<>>]

\* C27: process() runs once for a Slicer, and every access to `slices`
\* after the first one comes to what the first one came to: the same tuple,
\* or the same failure
C27_SameOutcome ==
    (slicer # None /\ Finished(slicer[1])) =>
        \A i \in DOMAIN slicer[1].got : slicer[1].got[i] = FirstOutcome(slicer[1])

\* ---- the planes handed to the slices
\* C29: every plane z_slices yields to the loop that updates the slices
\* comes with a z of 0 <= z < Z, Z being the third component of V.size
C29_PlaneWithinVolume ==
    (slicer # None /\ slicer[1].var # None) =>
        \A j \in DOMAIN slicer[1].log :
            (slicer[1].log[j].pass = "main" /\ slicer[1].log[j].plane) =>
                (0 <= slicer[1].log[j].z /\ slicer[1].log[j].z < slicer[1].var[1].size[3])

\* ---- the contrast range of a grayscale image
\* image_data encodes uint16 and float32 slices in GRAYSCALE mode; their
\* histograms are the ones made with these mask values
Grayscale(h) == h.mask_value \in {MaskValue("uint16"), MaskValue("float32")}

\* C30: the contrast range process() takes from the histogram of a uint16
\* or float32 volume has lo and hi both defined and lo < hi, whatever
\* the planes counted, none at all included
C30_ContrastRange ==
    (call # None /\ call.op = "contrast_range" /\ hist # None
        /\ Grayscale(hist[1])) =>
            /\ call.result[1].lo # None
            /\ call.result[1].hi # None
            /\ call.result[1].lo[1] < call.result[1].hi[1]

====
